---- MODULE Spec2Model ----
(***************************************************************************)
(* AutoDuty backend: the remediation pipeline (app.py, investigator.py,    *)
(* modal_runner.py), the per-process checkout directories, the edit        *)
(* tracking, path resolution and grep of RepoContext (repo_context.py),    *)
(* the per-incident event bus (event_bus.py), the agent's tools and their  *)
(* sandbox budget (tools.py), the log and events of the sandbox runs       *)
(* (modal_runner.py), the retry feedback composed of them (app.py), single *)
(* search_and_replace calls on longer texts, and the bus shared by several *)
(* incidents.                                                              *)
(*                                                                         *)
(* Scheduling.  The server is one asyncio event loop.  A task runs without *)
(* interruption until it awaits something that really suspends: the git    *)
(* clone subprocess, the model/tool run of the agent, and the executor     *)
(* call of a sandbox run.  EventBus.publish and EventBus.close_stream hold *)
(* no suspending await, and approve_incident holds none either, so an      *)
(* HTTP handler runs only while the pipeline task is parked at one of      *)
(* those points (Suspended) or has ended.                                  *)
(***************************************************************************)
EXTENDS Integers, Sequences, FiniteSets, TLC

\* ------------------------------------------------------------------ bounds
MaxAttemptsBound == 3
MaxEdits == 2
MaxPrCalls == 3

\* --------------------------------------------------------------- constants
None == "None"

STATUSES ==
  {"detected", "investigating", "fix_proposed", "simulating",
   "verified", "failed", "pr_created", "resolved"}

\* File contents as the pipeline sees them: "" is the empty string (Python
\* treats it like None in `x or ""` and `not x`).
CodeVals == {"", "A", "B"}

\* A FileEdit as get_file_edits builds it: original differs from current.
FileEdits == {e \in [original_content : CodeVals, new_content : CodeVals] :
                e.original_content # e.new_content}

\* What repo.get_file_edits() can hand to the pipeline after an agent run: no
\* edit, or a first edit of any shape followed by up to MaxEdits - 1 further
\* edits (the pipeline reads only the first edit and the length of the list).
FurtherEdit == [original_content |-> "A", new_content |-> "B"]
EditLists ==
  {<<>>} \cup {<<e>> \o [i \in 1..k |-> FurtherEdit] : e \in FileEdits, k \in 0..(MaxEdits - 1)}

\* Outcome of one sandbox run (_run_in_sandbox_streaming): exit code 0, a
\* non-zero exit code, the 60 s timeout of Sandbox.create, or a failure to
\* create or reach the sandbox.
SandboxOutcomes == {"exit0", "nonzero", "timeout", "infra_error"}

\* modal_runner.py:131-147 -- _run_sandbox reads no exit code when the Modal
\* call raises: Sandbox.create on an infrastructure error, sb.wait() on a
\* sandbox that hit its timeout.  The exception leaves
\* _run_in_sandbox_streaming and is caught at modal_runner.py:285.
Raises(out) == out \in {"timeout", "infra_error"}

VARIABLES
  max_attempts,          \* Config.MAX_RETRIES as read by _run_pipeline
  status,                \* Incident.status
  pc,                    \* position of the pipeline task
  attempt,               \* loop variable of _run_pipeline
  repo,                  \* local `repo` of _run_pipeline: None or the RepoContext
  clone_exists,          \* the RepoContext's clone_dir is on disk
  stream_closed,         \* number of close_stream calls for the incident
  retry_context,         \* local `retry_context` of _run_pipeline
  file_edits,            \* Incident.file_edits
  original_code,         \* Incident.original_code ("" for None)
  fixed_code,            \* Incident.fixed_code ("" for None)
  sandbox_reproduced,    \* Incident.sandbox_reproduced
  sandbox_fix_verified,  \* Incident.sandbox_fix_verified
  sandbox_output,        \* Incident.sandbox_output (kind of text)
  original_passed,       \* local of run_sandbox_verification
  result,                \* dict returned by run_sandbox_verification
  agent_calls,           \* number of investigation_agent.iter runs started
  sandbox_phases,        \* number of times Phase 2 was entered
  pr_url,                \* Incident.pr_url
  approve_resp,          \* HTTP status of the last approve call
  agent_events,          \* Incident.agent_events (the type of each entry)
  published,             \* the status_change and error events published for
                         \* the incident, in order
  feedback_count,        \* number of _format_sandbox_feedback calls
  reset_calls,           \* number of repo.reset_edit_tracking() calls
  pr_calls,              \* number of create_fix_pr calls
  prs_created,           \* number of pull requests created on GitHub
  agent_prompt           \* the retry_context the prompt of the latest agent
                         \* run was built with

pipeVars ==
  <<max_attempts, status, pc, attempt, repo, clone_exists, stream_closed,
    retry_context, file_edits, original_code, fixed_code, sandbox_reproduced,
    sandbox_fix_verified, sandbox_output, original_passed, result, agent_calls,
    sandbox_phases, pr_url, approve_resp, agent_events, published,
    feedback_count, reset_calls, agent_prompt, pr_calls, prs_created>>

\* Checkout directories of the incidents of one server process.
VARIABLES
  c_pc,        \* per incident: position of its pipeline w.r.t. the checkout
  c_url,       \* per incident: Incident.repo_url
  c_branch,    \* per incident: Incident.branch
  clone_dir,   \* per incident: RepoContext.clone_dir (None before clone())
  fs           \* per directory under CLONE_BASE_DIR: whose checkout it holds

cloneVars == <<c_pc, c_url, c_branch, clone_dir, fs>>

\* One RepoContext after clone(): its files and its edit tracking.
VARIABLES
  wc_exists,     \* the files that exist under clone_dir
  wc_text,       \* per file: its text
  originals,     \* RepoContext._originals, a dict in insertion order
  wc_ret,        \* what the most recent RepoContext call returned or raised
  wc_ops,        \* number of write/replace calls so far
  touched_by,    \* per file: the path spellings written or replaced since the last reset
  first_before,  \* per path: the text of its file just before the first
                 \* write/replace of that path since the last reset
  wc_checkout    \* per file: whether the clone held it, and its text then

wcVars == <<wc_exists, wc_text, originals, wc_ret, wc_ops, touched_by, first_before, wc_checkout>>

\* One RepoContext and the directories around its clone_dir, for the path
\* checks of its file operations.
VARIABLES
  p_files,       \* per file location: "missing" or the content of the file
  p_originals,   \* RepoContext._originals, keyed by the path as given
  p_ret,         \* the last call: its arguments, outcome and file accesses
  p_ops          \* number of calls made

pathVars == <<p_files, p_originals, p_ret, p_ops>>

\* One grep() call over a tree of text files.
VARIABLES
  g_tree,        \* the files below the search directory, in sorted order
  g_ret          \* what grep() returned

grepVars == <<g_tree, g_ret>>

\* The EventBus of one incident with its SSE subscribers.
VARIABLES
  b_subscribers, \* EventBus._subscribers: incident id -> list of subscriber queues
  b_queue,       \* per subscriber: the content of its asyncio.Queue
  b_pc,          \* per subscriber: position of its subscribe() generator
  b_received,    \* per subscriber: the events the generator has yielded
  b_published,   \* number of events published for the incident
  b_closed,      \* close_stream has been called for the incident
  b_joined_at,   \* per subscriber: number of events published before it subscribed
  b_late         \* per subscriber: it subscribed after close_stream

busVars ==
  <<b_subscribers, b_queue, b_pc, b_received, b_published, b_closed, b_joined_at, b_late>>

\* The agent runs of one incident and the tool calls made in them.
VARIABLES
  t_pc,                    \* position: between investigate_incident calls, in an
                           \* agent run, in the pipeline's verification, or ended
  t_calls,                 \* number of investigate_incident calls begun
  t_status,                \* Incident.status
  sandbox_runs_remaining,  \* AgentDeps.sandbox_runs_remaining of the current run
  t_started,               \* number of run_single_sandbox calls made for the incident
  t_tool_calls,            \* number of tool calls made in the current agent run
  t_ret,                   \* what the most recent tool call returned
  t_inflight               \* number of run_sandbox calls of the current agent run
                           \* that await run_single_sandbox

toolVars ==
  <<t_pc, t_calls, t_status, sandbox_runs_remaining, t_started, t_tool_calls, t_ret,
    t_inflight>>

\* The sandbox runs of one incident's verification phases.
VARIABLES
  s_pc,                  \* position: in the agent run of the attempt, in a
                         \* sandbox run whose script is running or has exited,
                         \* at the pipeline's decision, or ended
  s_attempt,             \* loop variable of _run_pipeline
  s_label,               \* label of the current sandbox run
  s_produced,            \* the lines the script has written so far, in order
  s_exit_code,           \* exit code of the script once it has exited
  s_fix_verified,        \* fix_verified of the verification result
  sandbox_terminal_log,  \* Incident.sandbox_terminal_log
  s_events               \* the sandbox_output and sandbox_exit events
                         \* published in the current attempt, in order

sbVars ==
  <<s_pc, s_attempt, s_label, s_produced, s_exit_code, s_fix_verified,
    sandbox_terminal_log, s_events>>

\* The retry feedback of one incident: the terminal log and the raw output
\* of its verification phases and the block composed from them.
VARIABLES
  f_pc,            \* position: in a verification phase, at its result, with
                   \* the feedback composed, or ended
  f_attempt,       \* loop variable of _run_pipeline
  f_log,           \* Incident.sandbox_terminal_log, each line by its number
  f_output_len,    \* len(incident.sandbox_output)
  f_fix_verified,  \* Incident.sandbox_fix_verified
  f_block          \* retry_context: the terminal-log lines and the positions
                   \* of the raw-output characters the block holds

fbVars == <<f_pc, f_attempt, f_log, f_output_len, f_fix_verified, f_block>>

\* One search_and_replace call on a file of some content.
VARIABLES
  r_pc,       \* position: before the call, or after it
  r_content,  \* the file's text before the call
  r_old,      \* argument old
  r_new,      \* argument new
  r_text,     \* the file's text
  r_ret       \* what the call returned

repVars == <<r_pc, r_content, r_old, r_new, r_text, r_ret>>

\* The EventBus shared by the incidents of the process.
VARIABLES
  m_subscribers,  \* EventBus._subscribers: incident id -> list of subscriber queues
  m_of,           \* per subscriber: the incident id it subscribed with
  m_queue,        \* per subscriber: the content of its asyncio.Queue
  m_pc,           \* per subscriber: position of its subscribe() generator
  m_received,     \* per subscriber: the events the generator has yielded
  m_ended_by,     \* per subscriber: the incident whose close_stream sent the
                  \* sentinel that ended its stream
  m_published,    \* per incident: number of events published for it
  m_closed        \* per incident: close_stream has been called for it

sharedVars ==
  <<m_subscribers, m_of, m_queue, m_pc, m_received, m_ended_by, m_published, m_closed>>

vars == <<pipeVars, cloneVars, wcVars, pathVars, grepVars, busVars, toolVars, sbVars, fbVars, repVars, sharedVars>>

\* Everything but the single-incident pipeline state.
nonPipeVars == <<cloneVars, wcVars, pathVars, grepVars, busVars, toolVars, sbVars, fbVars, repVars, sharedVars>>

\* Everything but the checkout state.
nonCloneVars == <<pipeVars, wcVars, pathVars, grepVars, busVars, toolVars, sbVars, fbVars, repVars, sharedVars>>

\* Everything but the working-copy state.
nonWcVars == <<pipeVars, cloneVars, pathVars, grepVars, busVars, toolVars, sbVars, fbVars, repVars, sharedVars>>

\* Everything but the path-resolution state.
nonPathVars == <<pipeVars, cloneVars, wcVars, grepVars, busVars, toolVars, sbVars, fbVars, repVars, sharedVars>>

\* Everything but the state of the grep scan.
nonGrepVars == <<pipeVars, cloneVars, wcVars, pathVars, busVars, toolVars, sbVars, fbVars, repVars, sharedVars>>

\* Everything but the event bus state.
nonBusVars == <<pipeVars, cloneVars, wcVars, pathVars, grepVars, toolVars, sbVars, fbVars, repVars, sharedVars>>

\* Everything but the state of the agent's tool calls.
nonToolVars == <<pipeVars, cloneVars, wcVars, pathVars, grepVars, busVars, sbVars, fbVars, repVars, sharedVars>>

\* Everything but the state of the sandbox runs.
nonSbVars == <<pipeVars, cloneVars, wcVars, pathVars, grepVars, busVars, toolVars, fbVars, repVars, sharedVars>>

\* Everything but the state of the retry feedback.
nonFbVars == <<pipeVars, cloneVars, wcVars, pathVars, grepVars, busVars, toolVars, sbVars, repVars, sharedVars>>

\* Everything but the state of the single replace call.
nonRepVars == <<pipeVars, cloneVars, wcVars, pathVars, grepVars, busVars, toolVars, sbVars, fbVars, sharedVars>>

\* Everything but the state of the shared bus.
nonSharedVars == <<pipeVars, cloneVars, wcVars, pathVars, grepVars, busVars, toolVars, sbVars, fbVars, repVars>>

\* ------------------------------------------------------------ pipeline
\* The positions at which the pipeline task is parked on a real suspension
\* (or not yet started / ended), so that other handlers can run.
SuspendedAtEveryAwait(p) == TRUE
Suspended(p) == p \in {"created", "clone", "agent", "sb_original", "sb_fixed", "done"}

\* app.py:306 / 334 -- another attempt remains.
AttemptsRemainOffByOne(a, m) == a + 1 < m
AttemptsRemain(a, m) == a < m

\* app.py:225 -- `for attempt in range(1, max_attempts + 1)` has a next value.
LoopContinuesOffByOne(a, m) == a <= m
LoopContinues(a, m) == a + 1 <= m

\* modal_runner.py:212-219 -- the code pair the verification runs.
PrimaryOriginal(edits, oc) == IF edits # <<>> THEN edits[1].original_content ELSE oc
PrimaryFixed(edits, fc) == IF edits # <<>> THEN edits[1].new_content ELSE fc

\* modal_runner.py:221 -- `if not original_code or not fixed_code`.
SkipVerification(oc, fc) == oc = "" \/ fc = ""

\* app.py:290 -- `if incident.sandbox_fix_verified`.
FixVerifiedReadsReproduced(r) == r.reproduced
FixVerified(r) == r.fix_verified

\* app.py:123 -- statuses in which approve creates a PR.
ApprovableUnchecked(s) == TRUE
ApprovableAgain(s) == s \in {"verified", "fix_proposed", "pr_created"}
Approvable(s) == s \in {"verified", "fix_proposed"}

\* No verification result yet (run_sandbox_verification has not returned).
NoResult == [reproduced |-> FALSE, fix_verified |-> FALSE, output |-> "None"]
SkippedResult == [reproduced |-> FALSE, fix_verified |-> FALSE, output |-> "Skipped"]
ErrorResult == [reproduced |-> FALSE, fix_verified |-> FALSE, output |-> "SandboxError"]
RanResult(orig_passed, fix_passed) ==
  [reproduced |-> ~orig_passed, fix_verified |-> fix_passed, output |-> "Log"]

\* app.py:184-207 -- _format_sandbox_feedback: the block built from the
\* incident's verification flags and sandbox_output (and the tail of the
\* terminal log, whose lines sandbox_output joins).
FormatSandboxFeedback(reproduced, fix_verified, output) ==
  [reproduced |-> reproduced, fix_verified |-> fix_verified, output |-> output]

\* app.py:222 -- `retry_context = None`: no feedback block.
NoFeedback == [reproduced |-> FALSE, fix_verified |-> FALSE, output |-> "None"]

\* The events published with type "status_change", "error" and
\* "sandbox_error".
StatusChangeWithoutStatus(st) == [type |-> "status_change", status |-> "None"]
StatusChange(st) == [type |-> "status_change", status |-> st]
ErrorEvent == [type |-> "error", status |-> "None"]
SandboxErrorEvent == [type |-> "sandbox_error", status |-> "None"]

\* investigator.py:172-261 -- the entries _process_node appends to
\* agent_events during an agent run that completes, and during one that
\* raises (before its first node or after a model request).
CompletedRunEvents == <<"model_request", "agent_complete">>
BrokenRunEvents == {<<>>, <<"model_request">>}

PipeInit ==
  /\ max_attempts \in 0..MaxAttemptsBound
  /\ status = "detected"
  /\ pc = "created"
  /\ attempt = 0
  /\ repo = None
  /\ clone_exists = FALSE
  /\ stream_closed = 0
  /\ retry_context = NoFeedback
  /\ file_edits = <<>>
  /\ original_code = ""
  /\ fixed_code = ""
  /\ sandbox_reproduced = None
  /\ sandbox_fix_verified = None
  /\ sandbox_output = None
  /\ original_passed = None
  /\ result = NoResult
  /\ agent_calls = 0
  /\ sandbox_phases = 0
  /\ pr_url = None
  /\ approve_resp = None
  /\ agent_events = <<>>
  /\ published = <<>>
  /\ feedback_count = 0
  /\ reset_calls = 0
  /\ agent_prompt = NoFeedback
  /\ pr_calls = 0
  /\ prs_created = 0

\* The task created by create_incident starts running _run_pipeline.
StartTask ==
  /\ UNCHANGED nonPipeVars
  /\ UNCHANGED <<feedback_count, reset_calls, agent_prompt, pr_calls, prs_created>>
  /\ UNCHANGED <<agent_events, published>>
  /\ pc = "created"
  /\ pc' = "loop"
  /\ UNCHANGED <<max_attempts, status, attempt, repo, clone_exists, stream_closed,
                 retry_context, file_edits, original_code, fixed_code,
                 sandbox_reproduced, sandbox_fix_verified, sandbox_output,
                 original_passed, result, agent_calls, sandbox_phases, pr_url,
                 approve_resp>>

\* Head of the retry loop: either no attempt is left and the loop falls
\* through to the cleanup, or the next attempt sets status investigating and
\* enters investigate_incident, which clones on the first call and resets the
\* edit tracking and starts the agent on a later one.
LoopHead ==
  /\ UNCHANGED nonPipeVars
  /\ UNCHANGED <<feedback_count, pr_calls, prs_created>>
  /\ IF LoopContinues(attempt, max_attempts) /\ repo # None
     THEN /\ reset_calls' = reset_calls + 1
          /\ agent_prompt' = retry_context
     ELSE UNCHANGED <<reset_calls, agent_prompt>>
  /\ published' =
       IF LoopContinues(attempt, max_attempts)
       THEN published \o <<StatusChange("investigating"),
                           IF repo = None THEN StatusChange("cloning")
                           ELSE StatusChange("investigating")>>
       ELSE published
  /\ UNCHANGED agent_events
  /\ pc = "loop"
  /\ IF LoopContinues(attempt, max_attempts)
     THEN /\ attempt' = attempt + 1
          /\ status' = "investigating"
          /\ IF repo = None
             THEN /\ pc' = "clone"
                  /\ UNCHANGED agent_calls
             ELSE /\ pc' = "agent"
                  /\ agent_calls' = agent_calls + 1
     ELSE /\ pc' = "exit"
          /\ UNCHANGED <<attempt, status, agent_calls>>
  /\ UNCHANGED <<max_attempts, repo, clone_exists, stream_closed, retry_context,
                 file_edits, original_code, fixed_code, sandbox_reproduced,
                 sandbox_fix_verified, sandbox_output, original_passed, result,
                 sandbox_phases, pr_url, approve_resp>>

\* repo.clone() returns or raises.  On success the agent run starts; on
\* failure the exception reaches the Phase 1 handler of _run_pipeline.
CloneDone ==
  /\ UNCHANGED nonPipeVars
  /\ UNCHANGED <<feedback_count, reset_calls, pr_calls, prs_created>>
  /\ pc = "clone"
  /\ \E ok \in BOOLEAN :
       IF ok
       THEN /\ clone_exists' = TRUE
            /\ agent_calls' = agent_calls + 1
            /\ agent_prompt' = retry_context
            /\ published' = Append(published, StatusChange("investigating"))
            /\ pc' = "agent"
       ELSE /\ pc' = "p1_except"
            /\ published' = Append(published, ErrorEvent)
            /\ UNCHANGED <<clone_exists, agent_calls, agent_prompt>>
  /\ UNCHANGED agent_events
  /\ UNCHANGED <<max_attempts, status, attempt, repo, stream_closed, retry_context,
                 file_edits, original_code, fixed_code, sandbox_reproduced,
                 sandbox_fix_verified, sandbox_output, original_passed, result,
                 sandbox_phases, pr_url, approve_resp>>

\* The agent run ends: it raises, or investigate_incident stores the verdict
\* (or the no-result defaults), the diff of the working copy and the
\* single-edit legacy fields, and returns the RepoContext to the pipeline.
AgentDone ==
  /\ UNCHANGED nonPipeVars
  /\ UNCHANGED <<feedback_count, reset_calls, agent_prompt, pr_calls, prs_created>>
  /\ pc = "agent"
  /\ \/ /\ pc' = "p1_except"
        /\ \E entries \in BrokenRunEvents : agent_events' = agent_events \o entries
        /\ published' = Append(published, ErrorEvent)
        /\ UNCHANGED <<repo, file_edits, original_code, fixed_code,
                       sandbox_reproduced, sandbox_fix_verified>>
     \/ \E has_result \in BOOLEAN, rc \in BOOLEAN, fv \in BOOLEAN, edits \in EditLists :
          /\ (~has_result) => (rc = FALSE /\ fv = FALSE)
          /\ sandbox_reproduced' = rc
          /\ sandbox_fix_verified' = fv
          /\ file_edits' = edits
          /\ IF Len(edits) = 1
             THEN /\ fixed_code' = edits[1].new_content
                  /\ original_code' = IF original_code = ""
                                      THEN edits[1].original_content
                                      ELSE original_code
             ELSE UNCHANGED <<fixed_code, original_code>>
          /\ repo' = "ctx"
          /\ agent_events' = agent_events \o CompletedRunEvents
          /\ UNCHANGED published
          /\ pc' = "p1_ok"
  /\ UNCHANGED <<max_attempts, status, attempt, clone_exists, stream_closed,
                 retry_context, sandbox_output, original_passed, result,
                 agent_calls, sandbox_phases, pr_url, approve_resp>>

\* app.py:253 -- update_status("fix_proposed") after investigate_incident.
FixProposed ==
  /\ UNCHANGED nonPipeVars
  /\ UNCHANGED <<feedback_count, reset_calls, agent_prompt, pr_calls, prs_created>>
  /\ published' = Append(published, StatusChange("fix_proposed"))
  /\ UNCHANGED agent_events
  /\ pc = "p1_ok"
  /\ status' = "fix_proposed"
  /\ pc' = "p2"
  /\ UNCHANGED <<max_attempts, attempt, repo, clone_exists, stream_closed,
                 retry_context, file_edits, original_code, fixed_code,
                 sandbox_reproduced, sandbox_fix_verified, sandbox_output,
                 original_passed, result, agent_calls, sandbox_phases, pr_url,
                 approve_resp>>

Phase1ExceptRetries ==
  /\ UNCHANGED nonPipeVars
  /\ UNCHANGED <<feedback_count, reset_calls, agent_prompt, pr_calls, prs_created>>
  /\ UNCHANGED <<agent_events, published>>
  /\ pc = "p1_except"
  /\ pc' = "loop"
  /\ UNCHANGED <<max_attempts, status, attempt, repo, clone_exists, stream_closed,
                 retry_context, file_edits, original_code, fixed_code,
                 sandbox_reproduced, sandbox_fix_verified, sandbox_output,
                 original_passed, result, agent_calls, sandbox_phases, pr_url,
                 approve_resp>>

\* app.py:261-273 -- Phase 1 exception handler: failed, cleanup of the
\* pipeline's own `repo` if it has one, close_stream, return.
Phase1Except ==
  /\ UNCHANGED nonPipeVars
  /\ UNCHANGED <<feedback_count, reset_calls, agent_prompt, pr_calls, prs_created>>
  /\ published' = Append(published, StatusChange("failed"))
  /\ UNCHANGED agent_events
  /\ pc = "p1_except"
  /\ status' = "failed"
  /\ clone_exists' = IF repo # None THEN FALSE ELSE clone_exists
  /\ stream_closed' = stream_closed + 1
  /\ pc' = "done"
  /\ UNCHANGED <<max_attempts, attempt, repo, retry_context, file_edits,
                 original_code, fixed_code, sandbox_reproduced,
                 sandbox_fix_verified, sandbox_output, original_passed, result,
                 agent_calls, sandbox_phases, pr_url, approve_resp>>

\* app.py:277-285 and modal_runner.py:212-250 -- Phase 2 begins: status
\* simulating, then run_sandbox_verification either skips or starts the run
\* of the original code.
Simulating ==
  /\ UNCHANGED nonPipeVars
  /\ UNCHANGED <<feedback_count, reset_calls, agent_prompt, pr_calls, prs_created>>
  /\ published' = Append(published, StatusChange("simulating"))
  /\ UNCHANGED agent_events
  /\ pc = "p2"
  /\ status' = "simulating"
  /\ sandbox_phases' = sandbox_phases + 1
  /\ IF SkipVerification(PrimaryOriginal(file_edits, original_code),
                         PrimaryFixed(file_edits, fixed_code))
     THEN /\ result' = SkippedResult
          /\ pc' = "p2_result"
     ELSE /\ result' = NoResult
          /\ pc' = "sb_original"
  /\ original_passed' = None
  /\ UNCHANGED <<max_attempts, attempt, repo, clone_exists, stream_closed,
                 retry_context, file_edits, original_code, fixed_code,
                 sandbox_reproduced, sandbox_fix_verified, sandbox_output,
                 agent_calls, pr_url, approve_resp>>

\* modal_runner.py:248-261, 285-295 -- the ORIGINAL-BUGGY run ends.
SandboxOriginalDone ==
  /\ UNCHANGED nonPipeVars
  /\ UNCHANGED <<feedback_count, reset_calls, agent_prompt, pr_calls, prs_created>>
  /\ pc = "sb_original"
  /\ \E out \in SandboxOutcomes :
       IF Raises(out)
       THEN /\ result' = ErrorResult
            /\ published' = Append(published, SandboxErrorEvent)
            /\ pc' = "p2_result"
            /\ UNCHANGED original_passed
       ELSE /\ original_passed' = (out = "exit0")
            /\ pc' = "sb_fixed"
            /\ UNCHANGED <<result, published>>
  /\ UNCHANGED agent_events
  /\ UNCHANGED <<max_attempts, status, attempt, repo, clone_exists, stream_closed,
                 retry_context, file_edits, original_code, fixed_code,
                 sandbox_reproduced, sandbox_fix_verified, sandbox_output,
                 agent_calls, sandbox_phases, pr_url, approve_resp>>

\* modal_runner.py:259-295 -- the FIXED run ends and the result is built.
SandboxFixedDone ==
  /\ UNCHANGED nonPipeVars
  /\ UNCHANGED <<feedback_count, reset_calls, agent_prompt, pr_calls, prs_created>>
  /\ pc = "sb_fixed"
  /\ \E out \in SandboxOutcomes :
       /\ result' = IF Raises(out) THEN ErrorResult
                    ELSE RanResult(original_passed, out = "exit0")
       /\ published' = IF Raises(out) THEN Append(published, SandboxErrorEvent)
                       ELSE published
       /\ pc' = "p2_result"
  /\ UNCHANGED agent_events
  /\ UNCHANGED <<max_attempts, status, attempt, repo, clone_exists, stream_closed,
                 retry_context, file_edits, original_code, fixed_code,
                 sandbox_reproduced, sandbox_fix_verified, sandbox_output,
                 original_passed, agent_calls, sandbox_phases, pr_url, approve_resp>>

\* app.py:286-328 -- the pipeline stores the result and decides: verified
\* and break, feedback and next attempt, or failed.
VerificationResult ==
  /\ UNCHANGED nonPipeVars
  /\ UNCHANGED <<reset_calls, agent_prompt, pr_calls, prs_created>>
  /\ pc = "p2_result"
  /\ sandbox_reproduced' = result.reproduced
  /\ sandbox_fix_verified' = result.fix_verified
  /\ sandbox_output' = result.output
  /\ IF FixVerified(result)
     THEN /\ status' = "verified"
          /\ published' = Append(published, StatusChange("verified"))
          /\ pc' = "exit"
          /\ UNCHANGED <<retry_context, feedback_count>>
     ELSE IF AttemptsRemain(attempt, max_attempts)
          THEN /\ retry_context' =
                    FormatSandboxFeedback(result.reproduced, result.fix_verified,
                                          result.output)
               /\ feedback_count' = feedback_count + 1
               /\ published' = Append(published, StatusChange("investigating"))
               /\ pc' = "loop"
               /\ UNCHANGED status
          ELSE /\ status' = "failed"
               /\ published' = Append(published, StatusChange("failed"))
               /\ pc' = "loop"
               /\ UNCHANGED <<retry_context, feedback_count>>
  /\ UNCHANGED agent_events
  /\ UNCHANGED <<max_attempts, attempt, repo, clone_exists, stream_closed,
                 file_edits, original_code, fixed_code, original_passed, result,
                 agent_calls, sandbox_phases, pr_url, approve_resp>>

\* app.py:349-354 -- after the loop: cleanup of `repo` if set, close_stream.
Exit ==
  /\ UNCHANGED nonPipeVars
  /\ UNCHANGED <<feedback_count, reset_calls, agent_prompt, pr_calls, prs_created>>
  /\ UNCHANGED <<agent_events, published>>
  /\ pc = "exit"
  /\ clone_exists' = IF repo # None THEN FALSE ELSE clone_exists
  /\ stream_closed' = stream_closed + 1
  /\ pc' = "done"
  /\ UNCHANGED <<max_attempts, status, attempt, repo, retry_context, file_edits,
                 original_code, fixed_code, sandbox_reproduced,
                 sandbox_fix_verified, sandbox_output, original_passed, result,
                 agent_calls, sandbox_phases, pr_url, approve_resp>>

\* app.py:117-137 -- approve_incident, run by the event loop while the
\* pipeline task is parked.  create_fix_pr raises when there is no fix code
\* (github_client.py:29) or when GitHub refuses.
Approve ==
  /\ UNCHANGED nonPipeVars
  /\ UNCHANGED <<feedback_count, reset_calls, agent_prompt>>
  /\ UNCHANGED <<agent_events, published>>
  /\ Suspended(pc)
  /\ IF ~Approvable(status)
     THEN /\ approve_resp' = "400"
          /\ UNCHANGED <<status, pr_url, pr_calls, prs_created>>
     ELSE /\ pr_calls < MaxPrCalls
          /\ pr_calls' = pr_calls + 1
          /\ \E github_ok \in BOOLEAN :
               IF github_ok /\ ~(file_edits = <<>> /\ fixed_code = "")
               THEN /\ pr_url' = "url"
                    /\ prs_created' = prs_created + 1
                    /\ status' = "pr_created"
                    /\ approve_resp' = "200"
               ELSE /\ approve_resp' = "500"
                    /\ UNCHANGED <<status, pr_url, prs_created>>
  /\ UNCHANGED <<max_attempts, pc, attempt, repo, clone_exists, stream_closed,
                 retry_context, file_edits, original_code, fixed_code,
                 sandbox_reproduced, sandbox_fix_verified, sandbox_output,
                 original_passed, result, agent_calls, sandbox_phases>>

PipeNext ==
  \/ StartTask
  \/ LoopHead
  \/ CloneDone
  \/ AgentDone
  \/ FixProposed
  \/ Phase1Except
  \/ Simulating
  \/ SandboxOriginalDone
  \/ SandboxFixedDone
  \/ VerificationResult
  \/ Exit
  \/ Approve

\* ------------------------------------------------------------ checkouts
\* Several incidents of one server process, each with its own pipeline task
\* and RepoContext (app.py:85-97, investigator.py:56-76).
NumIncidents == 2
Incidents == 1..NumIncidents

\* Last path component of a repo_url, as a sequence of characters.
LastComponents ==
  { <<"a", "p", "p">>,
    <<"a", "p", "p", ".", "g", "i", "t">>,
    <<"a", ".", "p">>,
    <<"a", "_", "p">> }

\* repo_url = https://github.com/<owner>/<last>
RepoUrls == [owner : {"acme", "beta"}, last : LastComponents]
Branches == {"main", "dev"}

\* Characters matched by [\w\-] among those used here.
WordChars == {"a", "p", "g", "i", "t", "_", "-"}

IsPrefix(sub, s) == Len(sub) <= Len(s) /\ SubSeq(s, 1, Len(sub)) = sub

\* str.replace(sub, ""): every non-overlapping occurrence, left to right.
RECURSIVE RemoveAll(_, _)
RemoveAll(s, sub) ==
  IF s = <<>> THEN <<>>
  ELSE IF IsPrefix(sub, s) THEN RemoveAll(SubSeq(s, Len(sub) + 1, Len(s)), sub)
  ELSE <<Head(s)>> \o RemoveAll(Tail(s), sub)

\* repo_context.py:55 -- re.sub(r"[^\w\-]", "_", url.split("/")[-1].replace(".git", ""))
SafeName(url) ==
  LET stripped == RemoveAll(url.last, <<".", "g", "i", "t">>)
  IN  [k \in 1..Len(stripped) |->
         IF stripped[k] \in WordChars THEN stripped[k] ELSE "_"]

\* repo_context.py:56 -- CLONE_BASE_DIR / f"{safe_name}_{os.getpid()}"; the
\* process id is the same for every incident of the process.
CloneDirOf(url, branch) == <<SafeName(url), "pid">>

Dirs == {CloneDirOf(u, b) : u \in RepoUrls, b \in Branches}

\* A directory is absent (0) or holds the checkout made for an incident.
Absent == 0

CloneIdle ==
  /\ c_pc = [i \in Incidents |-> "none"]
  /\ c_url = [i \in Incidents |-> None]
  /\ c_branch = [i \in Incidents |-> None]
  /\ clone_dir = [i \in Incidents |-> None]
  /\ fs = [d \in Dirs |-> Absent]

\* app.py:82-99 -- create_incident stores the incident and schedules its
\* pipeline task.
CreateIncident(i) ==
  /\ c_pc[i] = "none"
  /\ \E u \in RepoUrls, b \in Branches :
       /\ c_url' = [c_url EXCEPT ![i] = u]
       /\ c_branch' = [c_branch EXCEPT ![i] = b]
  /\ c_pc' = [c_pc EXCEPT ![i] = "start"]
  /\ UNCHANGED <<clone_dir, fs>>
  /\ UNCHANGED nonCloneVars

\* repo_context.py:42-70 -- clone() up to the await of the git subprocess:
\* the directory is computed, an existing one is removed, git clone starts.
CloneBegin(i) ==
  /\ c_pc[i] = "start"
  /\ LET d == CloneDirOf(c_url[i], c_branch[i])
     IN  /\ clone_dir' = [clone_dir EXCEPT ![i] = d]
         /\ fs' = [fs EXCEPT ![d] = Absent]
  /\ c_pc' = [c_pc EXCEPT ![i] = "cloning"]
  /\ UNCHANGED <<c_url, c_branch>>
  /\ UNCHANGED nonCloneVars

\* repo_context.py:71-78 -- the git subprocess ends.  It can fail at any time;
\* it succeeds only into a directory that no other checkout has filled
\* meanwhile.  A failure raises, the Phase 1 handler of the pipeline finds its
\* own `repo` unset and removes nothing.
CloneEnd(i) ==
  /\ c_pc[i] = "cloning"
  /\ \/ /\ fs[clone_dir[i]] = Absent
        /\ fs' = [fs EXCEPT ![clone_dir[i]] = i]
        /\ c_pc' = [c_pc EXCEPT ![i] = "agent"]
     \/ /\ c_pc' = [c_pc EXCEPT ![i] = "done"]
        /\ UNCHANGED fs
  /\ UNCHANGED <<c_url, c_branch, clone_dir>>
  /\ UNCHANGED nonCloneVars

\* repo_context.py:80-84 called from app.py:270 / 350 -- the pipeline ends
\* with its `repo` set and removes clone_dir if it exists.
Cleanup(i) ==
  /\ c_pc[i] = "agent"
  /\ fs' = [fs EXCEPT ![clone_dir[i]] = Absent]
  /\ c_pc' = [c_pc EXCEPT ![i] = "done"]
  /\ UNCHANGED <<c_url, c_branch, clone_dir>>
  /\ UNCHANGED nonCloneVars

\* app.py:261-273 on the first attempt -- the agent run raises before
\* investigate_incident returned the RepoContext: `repo` is still None and
\* the directory stays.
AbortWithoutCleanup(i) ==
  /\ c_pc[i] = "agent"
  /\ c_pc' = [c_pc EXCEPT ![i] = "done"]
  /\ UNCHANGED <<c_url, c_branch, clone_dir, fs>>
  /\ UNCHANGED nonCloneVars

CloneNext ==
  \E i \in Incidents :
    \/ CreateIncident(i)
    \/ CloneBegin(i)
    \/ CloneEnd(i)
    \/ Cleanup(i)
    \/ AbortWithoutCleanup(i)

\* --------------------------------------------------------- working copy
\* RepoContext file operations and edit tracking (repo_context.py:89-271).
MaxLen == 1
MaxOps == 2

Alphabet == {"x", "y"}

RECURSIVE TextsUpTo(_)
TextsUpTo(n) ==
  IF n = 0 THEN {<<>>}
  ELSE LET shorter == TextsUpTo(n - 1)
       IN  shorter \cup {Append(t, ch) : t \in {u \in shorter : Len(u) = n - 1}, ch \in Alphabet}

\* File texts and string arguments, as sequences of characters.
Texts == TextsUpTo(MaxLen)

\* Relative paths handed to the tools, and the files under clone_dir.
Paths == {"a.txt", "./a.txt", "b.txt"}
WFiles == {"a.txt", "b.txt"}

\* repo_context.py:94 -- (clone_dir / path).resolve(), relative to clone_dir.
Resolve(path) == IF path = "./a.txt" THEN "a.txt" ELSE path

\* file_path.read_text() if file_path.exists(), else "" (lines 117-120,
\* 228-231, 245-248).
TextOrEmpty(exists, text, f) == IF f \in exists THEN text[f] ELSE <<>>

\* `path in self._originals`
Tracked(orig, path) == \E k \in 1..Len(orig) : orig[k].path = path

\* repo_context.py:116 / 136 -- snapshot only on the first edit of the path.
SnapshotAlways(orig, path) == TRUE
SnapshotNeeded(orig, path) == ~Tracked(orig, path)

\* self._originals[path] = text, for a dict in insertion order.
SetOriginal(orig, path, text) ==
  IF Tracked(orig, path)
  THEN [k \in 1..Len(orig) |->
          IF orig[k].path = path THEN [path |-> path, original |-> text] ELSE orig[k]]
  ELSE Append(orig, [path |-> path, original |-> text])

\* `old in content`
RECURSIVE Contains(_, _)
Contains(content, old) ==
  IF IsPrefix(old, content) THEN TRUE
  ELSE IF content = <<>> THEN FALSE
  ELSE Contains(Tail(content), old)

\* content.replace(old, new, 1)
RECURSIVE ReplaceFirst(_, _, _)
ReplaceFirst(content, old, new) ==
  IF IsPrefix(old, content) THEN new \o SubSeq(content, Len(old) + 1, Len(content))
  ELSE IF content = <<>> THEN <<>>
  ELSE <<Head(content)>> \o ReplaceFirst(Tail(content), old, new)

\* A count of the replaced occurrence only.
CountOccFirstOnly(content, old) == 1

\* content.count(old): non-overlapping occurrences; len + 1 for the empty string.
RECURSIVE CountOcc(_, _)
CountOcc(content, old) ==
  IF old = <<>> THEN Len(content) + 1
  ELSE IF Len(content) < Len(old) THEN 0
  ELSE IF IsPrefix(old, content)
       THEN 1 + CountOcc(SubSeq(content, Len(old) + 1, Len(content)), old)
       ELSE CountOcc(Tail(content), old)

\* A diff that reports every tracked path, changed or not.
GetFileEditsKeepsUnchanged(orig, exists, text) ==
  [k \in 1..Len(orig) |->
     [file_path |-> orig[k].path,
      original_content |-> orig[k].original,
      new_content |-> TextOrEmpty(exists, text, Resolve(orig[k].path))]]

\* repo_context.py:239-271 -- get_file_edits: one FileEdit per tracked path
\* whose current text differs from its baseline, in dict order.
RECURSIVE GetFileEdits(_, _, _)
GetFileEdits(orig, exists, text) ==
  IF orig = <<>> THEN <<>>
  ELSE LET current == TextOrEmpty(exists, text, Resolve(Head(orig).path))
           rest == GetFileEdits(Tail(orig), exists, text)
       IN  IF Head(orig).original = current
           THEN rest
           ELSE <<[file_path |-> Head(orig).path,
                   original_content |-> Head(orig).original,
                   new_content |-> current]>> \o rest

\* Per file: whether it exists, and its text.
FileStates(exists, text) == [f \in WFiles |-> [exists |-> f \in exists, text |-> text[f]]]

\* The clone holds a.txt with some text, or not at all; b.txt is a file the
\* repository does not have.
WcInit ==
  /\ wc_exists \in SUBSET {"a.txt"}
  /\ wc_text \in [WFiles -> Texts]
  /\ \A f \in WFiles : f \notin wc_exists => wc_text[f] = <<>>
  /\ originals = <<>>
  /\ wc_ret = [op |-> "clone"]
  /\ wc_ops = 0
  /\ touched_by = [f \in WFiles |-> {}]
  /\ first_before = [p \in Paths |-> <<"untouched">>]
  /\ wc_checkout = FileStates(wc_exists, wc_text)

\* Bookkeeping of a write/replace call on `path`: the spelling is noted, and
\* the text before the first such call since the last reset is kept.
NoteTouch(path) ==
  /\ touched_by' = [touched_by EXCEPT ![Resolve(path)] = @ \cup {path}]
  /\ first_before' =
       IF path \in touched_by[Resolve(path)]
       THEN first_before
       ELSE [first_before EXCEPT ![path] = TextOrEmpty(wc_exists, wc_text, Resolve(path))]

\* repo_context.py:111-126 -- write_file(path, content)
WriteFile(path, content) ==
  /\ wc_ops < MaxOps
  /\ wc_ops' = wc_ops + 1
  /\ LET f == Resolve(path)
     IN  /\ originals' =
               IF SnapshotNeeded(originals, path)
               THEN SetOriginal(originals, path, TextOrEmpty(wc_exists, wc_text, f))
               ELSE originals
         /\ wc_exists' = wc_exists \cup {f}
         /\ wc_text' = [wc_text EXCEPT ![f] = content]
  /\ wc_ret' = [op |-> "write_file"]
  /\ NoteTouch(path)
  /\ UNCHANGED <<nonWcVars, wc_checkout>>

\* A replace that takes its snapshot before it looks for `old`.
SearchAndReplaceSnapshotsFirst(path, old, new) ==
  /\ wc_ops < MaxOps
  /\ wc_ops' = wc_ops + 1
  /\ LET f == Resolve(path)
         content == wc_text[f]
     IN  IF f \notin wc_exists
         THEN /\ wc_ret' = [op |-> "search_and_replace", raised |-> "FileNotFoundError"]
              /\ UNCHANGED <<originals, wc_exists, wc_text>>
         ELSE /\ originals' =
                    IF SnapshotNeeded(originals, path)
                    THEN SetOriginal(originals, path, content)
                    ELSE originals
              /\ IF ~Contains(content, old)
                 THEN /\ wc_ret' = [op |-> "search_and_replace", returned |-> "String not found"]
                      /\ UNCHANGED <<wc_exists, wc_text>>
                 ELSE /\ Len(ReplaceFirst(content, old, new)) <= MaxLen
                      /\ wc_text' = [wc_text EXCEPT ![f] = ReplaceFirst(content, old, new)]
                      /\ wc_ret' = [op |-> "search_and_replace", returned |-> "Replaced 1 occurrence",
                                    count |-> CountOcc(content, old)]
                      /\ UNCHANGED wc_exists
  /\ NoteTouch(path)
  /\ UNCHANGED <<nonWcVars, wc_checkout>>

\* repo_context.py:128-144 -- search_and_replace(path, old, new)
SearchAndReplace(path, old, new) ==
  /\ wc_ops < MaxOps
  /\ wc_ops' = wc_ops + 1
  /\ LET f == Resolve(path)
         content == wc_text[f]
     IN  IF f \notin wc_exists
         THEN /\ wc_ret' = [op |-> "search_and_replace", raised |-> "FileNotFoundError"]
              /\ UNCHANGED <<originals, wc_exists, wc_text>>
         ELSE IF ~Contains(content, old)
         THEN /\ wc_ret' = [op |-> "search_and_replace", returned |-> "String not found"]
              /\ UNCHANGED <<originals, wc_exists, wc_text>>
         ELSE /\ Len(ReplaceFirst(content, old, new)) <= MaxLen
              /\ originals' =
                    IF SnapshotNeeded(originals, path)
                    THEN SetOriginal(originals, path, content)
                    ELSE originals
              /\ wc_text' = [wc_text EXCEPT ![f] = ReplaceFirst(content, old, new)]
              /\ wc_ret' = [op |-> "search_and_replace", returned |-> "Replaced 1 occurrence",
                            count |-> CountOcc(content, old)]
              /\ UNCHANGED wc_exists
  /\ NoteTouch(path)
  /\ UNCHANGED <<nonWcVars, wc_checkout>>

\* A reset that keeps the old baselines instead of re-reading the files.
ResetKeepsBaselines ==
  /\ originals' = originals
  /\ wc_ret' = [op |-> "reset_edit_tracking"]
  /\ touched_by' = [f \in WFiles |-> {}]
  /\ first_before' = [p \in Paths |-> <<"untouched">>]
  /\ UNCHANGED <<wc_exists, wc_text, wc_ops>>
  /\ UNCHANGED <<nonWcVars, wc_checkout>>

\* repo_context.py:216-234 -- reset_edit_tracking()
ResetEditTracking ==
  /\ originals' =
       [k \in 1..Len(originals) |->
          [path |-> originals[k].path,
           original |-> TextOrEmpty(wc_exists, wc_text, Resolve(originals[k].path))]]
  /\ wc_ret' = [op |-> "reset_edit_tracking"]
  /\ touched_by' = [f \in WFiles |-> {}]
  /\ first_before' = [p \in Paths |-> <<"untouched">>]
  /\ UNCHANGED <<wc_exists, wc_text, wc_ops>>
  /\ UNCHANGED <<nonWcVars, wc_checkout>>

\* investigator.py:130 -- incident.file_edits = repo.get_file_edits().  The
\* call that came just before it is noted with the result.
GetFileEditsCall ==
  /\ wc_ret' = [op |-> "get_file_edits",
                edits |-> GetFileEdits(originals, wc_exists, wc_text),
                after |-> wc_ret.op]
  /\ UNCHANGED <<wc_exists, wc_text, originals, wc_ops, touched_by, first_before>>
  /\ UNCHANGED <<nonWcVars, wc_checkout>>

WcNext ==
  \/ \E path \in Paths, content \in Texts : WriteFile(path, content)
  \/ \E path \in Paths, old \in Texts, new \in Texts : SearchAndReplace(path, old, new)
  \/ ResetEditTracking
  \/ GetFileEditsCall

\* ------------------------------------------------------ path resolution
\* RepoContext._resolve and the file operations that call it
\* (repo_context.py:89-211), with paths as lists of components and each
\* component as a list of characters, so that the check of line 97 is the
\* string comparison the code makes.
MaxDepth == 3
MaxPathOps == 2

Up == <<".", ".">>
Dot == <<".">>

\* Directory names next to and above the clone: the clone itself, a sibling
\* whose name starts with the clone's name, another sibling, their parent.
BaseName == <<"t">>
RootName == <<"a">>
SiblingName == <<"a", "b">>
OtherName == <<"o">>
FileName == <<"f">>

\* self.clone_dir, already resolved.
CloneDirParts == <<BaseName, RootName>>

\* The components a relative path argument is made of.
PathParts == {Up, SiblingName, OtherName, FileName}

\* Path.resolve() on an absolute path without symlinks: "." is dropped and
\* ".." removes the component before it (and is dropped at "/").
RECURSIVE NormalizeOnto(_, _)
NormalizeOnto(stack, comps) ==
  IF comps = <<>> THEN stack
  ELSE LET c == Head(comps)
       IN  IF c = Up
           THEN NormalizeOnto(IF stack = <<>> THEN <<>> ELSE SubSeq(stack, 1, Len(stack) - 1),
                              Tail(comps))
           ELSE IF c = Dot
           THEN NormalizeOnto(stack, Tail(comps))
           ELSE NormalizeOnto(Append(stack, c), Tail(comps))

\* repo_context.py:94 -- (self.clone_dir / path).resolve()
ResolvedOf(path) == NormalizeOnto(CloneDirParts, path)

RECURSIVE JoinParts(_)
JoinParts(comps) ==
  IF comps = <<>> THEN <<>> ELSE <<"/">> \o Head(comps) \o JoinParts(Tail(comps))

\* str(Path): the components joined with "/", and "/" for the root directory.
PathStr(comps) == IF comps = <<>> THEN <<"/">> ELSE JoinParts(comps)

\* repo_context.py:97 -- str(resolved).startswith(str(self.clone_dir.resolve()))
Accepted(path) == IsPrefix(PathStr(CloneDirParts), PathStr(ResolvedOf(path)))

\* Path.relative_to(self.clone_dir) succeeds: clone_dir is the location or
\* one of its parents, component by component.
RelativeToClone(loc) ==
  /\ Len(loc) >= Len(CloneDirParts)
  /\ SubSeq(loc, 1, Len(CloneDirParts)) = CloneDirParts

\* The directories and the file locations of the modelled tree.
DirLocs ==
  {<<>>, <<BaseName>>, CloneDirParts, <<BaseName, SiblingName>>, <<BaseName, OtherName>>}
FileLocs ==
  {CloneDirParts \o <<FileName>>, <<BaseName, SiblingName, FileName>>,
   <<BaseName, OtherName, FileName>>}

RECURSIVE PartSeqsUpTo(_)
PartSeqsUpTo(n) ==
  IF n = 0 THEN {<<>>}
  ELSE LET shorter == PartSeqsUpTo(n - 1)
       IN  shorter \cup {Append(q, c) : q \in {u \in shorter : Len(u) = n - 1}, c \in PathParts}

\* The path arguments: those that resolve to a location of the modelled tree.
PathArgs ==
  {q \in PartSeqsUpTo(MaxDepth) : q # <<>> /\ ResolvedOf(q) \in DirLocs \cup FileLocs}

\* File contents: as cloned, or as written by a tool call.
Contents == {"c", "w"}

\* file_path.exists()
ExistsAt(files, loc) == loc \in DirLocs \/ (loc \in FileLocs /\ files[loc] # "missing")

\* The existing files at or below a location, as rglob("*") yields them.
FilesUnder(files, loc) ==
  {f \in FileLocs : files[f] # "missing" /\ Len(f) >= Len(loc) /\ SubSeq(f, 1, Len(loc)) = loc}

PathInit ==
  /\ p_files \in [FileLocs -> {"missing", "c"}]
  /\ p_originals = <<>>
  /\ p_ret = [op |-> "clone"]
  /\ p_ops = 0

PathIdle ==
  /\ p_files = [f \in FileLocs |-> "missing"]
  /\ p_originals = <<>>
  /\ p_ret = [op |-> "clone"]
  /\ p_ops = 0

\* The return or the exception of a call, with the locations whose existence
\* or kind it examined (stat), the files it read or wrote (io) and whether
\* it added a baseline (snapshot).
Outcome(op, path, out, stat, io, snapshot) ==
  [op |-> op, path |-> path, out |-> out, stat |-> stat, io |-> io, snapshot |-> snapshot]

\* repo_context.py:89-100 raising ValueError("Path traversal detected").
Rejected(op, path) == Outcome(op, path, "Path traversal detected", {}, {}, FALSE)

\* `path in self._originals`
HasBaseline(orig, path) == \E k \in 1..Len(orig) : orig[k].path = path

\* repo_context.py:102-109 -- read_file(path)
ReadFileAt(path) ==
  /\ p_ops < MaxPathOps
  /\ p_ops' = p_ops + 1
  /\ LET loc == ResolvedOf(path)
     IN  p_ret' =
           IF ~Accepted(path) THEN Rejected("read_file", path)
           ELSE IF ~ExistsAt(p_files, loc)
           THEN Outcome("read_file", path, "File not found", {loc}, {}, FALSE)
           ELSE IF loc \in DirLocs
           THEN Outcome("read_file", path, "Not a file", {loc}, {}, FALSE)
           ELSE Outcome("read_file", path, "ok", {loc}, {loc}, FALSE)
  /\ UNCHANGED <<p_files, p_originals>>
  /\ UNCHANGED nonPathVars

\* repo_context.py:111-126 -- write_file(path, content).  On a directory the
\* snapshot's read_text raises before anything is stored.
WriteFileAt(path) ==
  /\ p_ops < MaxPathOps
  /\ p_ops' = p_ops + 1
  /\ LET loc == ResolvedOf(path)
         fresh == ~HasBaseline(p_originals, path)
     IN  IF ~Accepted(path)
         THEN /\ p_ret' = Rejected("write_file", path)
              /\ UNCHANGED <<p_files, p_originals>>
         ELSE IF loc \in DirLocs
         THEN /\ p_ret' = Outcome("write_file", path, "IsADirectoryError", {loc}, {}, FALSE)
              /\ UNCHANGED <<p_files, p_originals>>
         ELSE /\ p_originals' =
                   IF fresh
                   THEN Append(p_originals,
                               [path |-> path,
                                original |-> IF p_files[loc] = "missing" THEN "" ELSE p_files[loc]])
                   ELSE p_originals
              /\ p_files' = [p_files EXCEPT ![loc] = "w"]
              /\ p_ret' = Outcome("write_file", path, "ok", {loc}, {loc}, fresh)
  /\ UNCHANGED nonPathVars

\* repo_context.py:128-144 -- search_and_replace(path, old, new): the file
\* holds `old` exactly when its content is `old`, and the replacement
\* leaves the written content.
SearchAndReplaceAt(path, old) ==
  /\ p_ops < MaxPathOps
  /\ p_ops' = p_ops + 1
  /\ LET loc == ResolvedOf(path)
         fresh == ~HasBaseline(p_originals, path)
     IN  IF ~Accepted(path)
         THEN /\ p_ret' = Rejected("search_and_replace", path)
              /\ UNCHANGED <<p_files, p_originals>>
         ELSE IF ~ExistsAt(p_files, loc)
         THEN /\ p_ret' = Outcome("search_and_replace", path, "File not found", {loc}, {}, FALSE)
              /\ UNCHANGED <<p_files, p_originals>>
         ELSE IF loc \in DirLocs
         THEN /\ p_ret' = Outcome("search_and_replace", path, "Not a file", {loc}, {}, FALSE)
              /\ UNCHANGED <<p_files, p_originals>>
         ELSE IF p_files[loc] # old
         THEN /\ p_ret' = Outcome("search_and_replace", path, "String not found", {loc}, {loc}, FALSE)
              /\ UNCHANGED <<p_files, p_originals>>
         ELSE /\ p_originals' =
                   IF fresh
                   THEN Append(p_originals, [path |-> path, original |-> p_files[loc]])
                   ELSE p_originals
              /\ p_files' = [p_files EXCEPT ![loc] = "w"]
              /\ p_ret' = Outcome("search_and_replace", path, "ok", {loc}, {loc}, fresh)
  /\ UNCHANGED nonPathVars

\* repo_context.py:146-189 -- grep(pattern, path): resolve, existence check,
\* compile, then the files in sorted order; relative_to(clone_dir) raises
\* on the first file that is not below clone_dir, before it is read.
GrepAt(pattern_ok, path) ==
  /\ p_ops < MaxPathOps
  /\ p_ops' = p_ops + 1
  /\ LET loc == ResolvedOf(path)
         files == FilesUnder(p_files, loc)
         res(out, stat, io) ==
           [op |-> "grep", path |-> path, pattern_ok |-> pattern_ok,
            out |-> out, stat |-> stat, io |-> io, snapshot |-> FALSE]
     IN  p_ret' =
           IF ~Accepted(path) THEN res("Path traversal detected", {}, {})
           ELSE IF ~ExistsAt(p_files, loc) THEN res("Path not found", {loc}, {})
           ELSE IF ~pattern_ok THEN res("Invalid regex pattern", {loc}, {})
           ELSE IF \E f \in files : ~RelativeToClone(f)
           THEN res("relative_to ValueError", {loc} \cup files, {})
           ELSE res("ok", {loc} \cup files, files)
  /\ UNCHANGED <<p_files, p_originals>>
  /\ UNCHANGED nonPathVars

\* repo_context.py:191-211 -- list_directory(path)
ListDirectoryAt(path) ==
  /\ p_ops < MaxPathOps
  /\ p_ops' = p_ops + 1
  /\ LET loc == ResolvedOf(path)
         entries == {f \in FilesUnder(p_files, loc) : Len(f) = Len(loc) + 1}
     IN  p_ret' =
           IF ~Accepted(path) THEN Rejected("list_directory", path)
           ELSE IF ~ExistsAt(p_files, loc)
           THEN Outcome("list_directory", path, "Path not found", {loc}, {}, FALSE)
           ELSE IF loc \notin DirLocs
           THEN Outcome("list_directory", path, "Not a directory", {loc}, {}, FALSE)
           ELSE IF \E f \in entries : ~RelativeToClone(f)
           THEN Outcome("list_directory", path, "relative_to ValueError", {loc}, {}, FALSE)
           ELSE Outcome("list_directory", path, "ok", {loc}, {}, FALSE)
  /\ UNCHANGED <<p_files, p_originals>>
  /\ UNCHANGED nonPathVars

PathNext ==
  \E path \in PathArgs :
    \/ ReadFileAt(path)
    \/ WriteFileAt(path)
    \/ \E old \in Contents : SearchAndReplaceAt(path, old)
    \/ \E pattern_ok \in BOOLEAN : GrepAt(pattern_ok, path)
    \/ ListDirectoryAt(path)

\* ------------------------------------------------------------ grep scan
\* The result loop of RepoContext.grep (repo_context.py:152-189) over the
\* visible text files below the search directory.
MaxFiles == 2

\* repo_context.py:153
max_results == 50

\* A file is a number of lines of which every stride-th matches the pattern.
LineCounts == {0, 1, 25, 26, 50}
Strides == {1, 2}
TreeFiles == [lines : LineCounts, stride : Strides]

RECURSIVE TreesUpTo(_)
TreesUpTo(n) ==
  IF n = 0 THEN {<<>>}
  ELSE LET shorter == TreesUpTo(n - 1)
       IN  shorter \cup {Append(t, f) : t \in {u \in shorter : Len(u) = n - 1}, f \in TreeFiles}

Trees == TreesUpTo(MaxFiles)

\* regex.search(line) for line i of a file
LineMatches(file, i) == i % file.stride = 0

\* f"... (truncated at {max_results} results)"
TruncationMarker == [file |-> 0, line |-> max_results]

\* repo_context.py:183 -- if len(results) >= max_results
ScanStops(results) == Len(results) >= max_results

\* repo_context.py:180-182 -- the result lines that file k adds, in line order.
FileHits(file, k) ==
  LET hit(i) == LineMatches(file, i)
      nums == SelectSeq([i \in 1..file.lines |-> i], hit)
  IN  [n \in 1..Len(nums) |-> [file |-> k, line |-> nums[n]]]

\* repo_context.py:165-185 -- the loops over the files and their lines, from
\* file k on: the lines of a file are appended up to the first one at which
\* the scan stops, and the marker follows that one.
RECURSIVE GrepScan(_, _, _)
GrepScan(tree, k, results) ==
  IF k > Len(tree) THEN results
  ELSE LET hits == FileHits(tree[k], k)
           stops == {n \in 1..Len(hits) : ScanStops(results \o SubSeq(hits, 1, n))}
       IN  IF stops = {}
           THEN GrepScan(tree, k + 1, results \o hits)
           ELSE LET n == CHOOSE m \in stops : \A o \in stops : m <= o
                IN  Append(results \o SubSeq(hits, 1, n), TruncationMarker)

GrepInit ==
  /\ g_tree \in Trees
  /\ g_ret = [op |-> "none"]

GrepIdle ==
  /\ g_tree = <<>>
  /\ g_ret = [op |-> "none"]

\* repo_context.py:152-189 -- grep() with a valid pattern on an existing
\* directory: the joined result lines, or the "No matches found" message.
GrepLines ==
  /\ g_ret.op = "none"
  /\ LET results == GrepScan(g_tree, 1, <<>>)
     IN  g_ret' = IF results = <<>>
                  THEN [op |-> "grep", out |-> "No matches found", results |-> <<>>]
                  ELSE [op |-> "grep", out |-> "results", results |-> results]
  /\ UNCHANGED g_tree
  /\ UNCHANGED nonGrepVars

GrepNext == GrepLines

\* ------------------------------------------------------------ event bus
\* EventBus.publish / subscribe / close_stream (event_bus.py:25-69) for one
\* incident.  The publisher is the pipeline: it publishes its events and
\* calls close_stream once, last.  The events are numbered in publish order.
\* asyncio.Queue(maxsize=1000) is scaled down to QueueMaxSize.
QueueMaxSize == 2
MaxEvents == 3

Subscribers == {"s1", "s2"}
BusIncident == "inc"

\* The None that close_stream puts into the queues.
Sentinel == 0

\* self._subscribers.get(incident_id, [])
QueuesOf(subs) == IF BusIncident \in DOMAIN subs THEN subs[BusIncident] ELSE <<>>

InList(list, s) == \E n \in 1..Len(list) : list[n] = s

\* A put that makes room by discarding the oldest queued item.
PutDropsOldest(q, item) ==
  IF Len(q) < QueueMaxSize THEN Append(q, item) ELSE Append(Tail(q), item)

\* event_bus.py:33-36 / 66-69 -- q.put_nowait(item) with QueueFull swallowed.
PutNowait(q, item) == IF Len(q) < QueueMaxSize THEN Append(q, item) ELSE q

\* event_bus.py:57 -- list.remove(queue)
RemoveFrom(list, s) == SelectSeq(list, LAMBDA x : x # s)

BusInit ==
  /\ b_subscribers = [i \in {} |-> <<>>]
  /\ b_queue = [s \in Subscribers |-> <<>>]
  /\ b_pc = [s \in Subscribers |-> "none"]
  /\ b_received = [s \in Subscribers |-> <<>>]
  /\ b_published = 0
  /\ b_closed = FALSE
  /\ b_joined_at = [s \in Subscribers |-> 0]
  /\ b_late = [s \in Subscribers |-> FALSE]

BusIdle == BusInit

\* event_bus.py:38-50 -- subscribe() up to its first await: a new queue is
\* appended to the incident's list.
Subscribe(s) ==
  /\ b_pc[s] = "none"
  /\ b_subscribers' = [i \in {BusIncident} |-> Append(QueuesOf(b_subscribers), s)]
  /\ b_queue' = [b_queue EXCEPT ![s] = <<>>]
  /\ b_pc' = [b_pc EXCEPT ![s] = "waiting"]
  /\ b_joined_at' = [b_joined_at EXCEPT ![s] = b_published]
  /\ b_late' = [b_late EXCEPT ![s] = b_closed]
  /\ UNCHANGED <<b_received, b_published, b_closed>>
  /\ UNCHANGED nonBusVars

\* event_bus.py:25-36 -- publish(incident_id, event)
Publish ==
  /\ ~b_closed
  /\ b_published < MaxEvents
  /\ b_published' = b_published + 1
  /\ b_queue' = [s \in Subscribers |->
                   IF InList(QueuesOf(b_subscribers), s)
                   THEN PutNowait(b_queue[s], b_published + 1)
                   ELSE b_queue[s]]
  /\ UNCHANGED <<b_subscribers, b_pc, b_received, b_closed, b_joined_at, b_late>>
  /\ UNCHANGED nonBusVars

\* event_bus.py:62-69 -- close_stream(incident_id)
CloseStream ==
  /\ ~b_closed
  /\ b_closed' = TRUE
  /\ b_queue' = [s \in Subscribers |->
                   IF InList(QueuesOf(b_subscribers), s)
                   THEN PutNowait(b_queue[s], Sentinel)
                   ELSE b_queue[s]]
  /\ UNCHANGED <<b_subscribers, b_pc, b_received, b_published, b_joined_at, b_late>>
  /\ UNCHANGED nonBusVars

\* event_bus.py:48-60 -- one turn of the subscriber's loop: queue.get()
\* returns the oldest item; an event is yielded, the sentinel ends the loop
\* and the finally block removes the queue (and the emptied list).
Get(s) ==
  /\ b_pc[s] = "waiting"
  /\ b_queue[s] # <<>>
  /\ b_queue' = [b_queue EXCEPT ![s] = Tail(@)]
  /\ IF Head(b_queue[s]) = Sentinel
     THEN /\ b_pc' = [b_pc EXCEPT ![s] = "ended"]
          /\ b_subscribers' =
               LET rest == RemoveFrom(QueuesOf(b_subscribers), s)
               IN  IF rest = <<>> THEN [i \in {} |-> <<>>] ELSE [i \in {BusIncident} |-> rest]
          /\ UNCHANGED b_received
     ELSE /\ b_received' = [b_received EXCEPT ![s] = Append(@, Head(b_queue[s]))]
          /\ UNCHANGED <<b_pc, b_subscribers>>
  /\ UNCHANGED <<b_published, b_closed, b_joined_at, b_late>>
  /\ UNCHANGED nonBusVars

BusNext ==
  \/ Publish
  \/ CloseStream
  \/ \E s \in Subscribers : Subscribe(s) \/ Get(s)

\* ------------------------------------------------------------ agent tools
\* The tool layer of one incident: each investigate_incident call builds an
\* AgentDeps and runs the agent, which calls the tools of tools.py any number
\* of times before it returns its verdict.
MAX_SANDBOX_RUNS == 2
MaxToolCalls == 3

RepoTools == {"read_file", "write_file", "search_and_replace", "grep", "list_directory"}

\* How a call ends: with a returned text, or with a raised exception of a
\* class and a message.
Returned(text) == [raised |-> "None", text |-> text]
Raised(cls, text) == [raised |-> cls, text |-> text]

\* repo_context.py:89-211 -- the ways each RepoContext operation ends.
RepoEndings(tool) ==
  CASE tool = "read_file" ->
         {Returned("content"),
          Raised("ValueError", "Path traversal detected"),
          Raised("FileNotFoundError", "File not found"),
          Raised("ValueError", "Not a file")}
    [] tool = "write_file" ->
         {Returned("Wrote"),
          Raised("ValueError", "Path traversal detected"),
          Raised("IsADirectoryError", "Is a directory")}
    [] tool = "search_and_replace" ->
         {Returned("Replaced"),
          Returned("String not found"),
          Raised("ValueError", "Path traversal detected"),
          Raised("FileNotFoundError", "File not found"),
          Raised("ValueError", "Not a file")}
    [] tool = "grep" ->
         {Returned("results"),
          Returned("Path not found"),
          Returned("Invalid regex pattern"),
          Raised("ValueError", "Path traversal detected")}
    [] tool = "list_directory" ->
         {Returned("entries"),
          Returned("Path not found"),
          Returned("Not a directory"),
          Raised("ValueError", "Path traversal detected")}

\* One sandbox run requested by the agent: it exits with a code, or the
\* environment cannot be started or reached.
SandboxRunEndings ==
  {Returned("exit_code=0"), Returned("exit_code=1"),
   Raised("SandboxInfrastructureError", "sandbox unreachable")}

\* The classes below are all subclasses of Exception.
ExceptionSubclasses ==
  {"ValueError", "FileNotFoundError", "IsADirectoryError", "SandboxInfrastructureError"}

\* tools.py:59, 91, 126, 158, 189, 269 -- `except Exception as e`.
CaughtOnlyValueError(cls) == cls = "ValueError"
CaughtByWrapper(cls) == cls \in ExceptionSubclasses

\* What a tool hands back to the agent.
ToolResult(tool, ending) ==
  [tool |-> tool,
   kind |-> IF ending.raised = "None" THEN "result" ELSE "error_text",
   text |-> ending.text]

BudgetExhausted ==
  [tool |-> "run_sandbox", kind |-> "budget_exhausted",
   text |-> "Sandbox run budget exhausted"]

NoToolCall == [tool |-> "None", kind |-> "None", text |-> "None"]

ToolInit ==
  /\ t_pc = "idle"
  /\ t_calls = 0
  /\ t_status = "detected"
  /\ sandbox_runs_remaining = None
  /\ t_started = 0
  /\ t_tool_calls = 0
  /\ t_ret = NoToolCall
  /\ t_inflight = 0

ToolIdle == ToolInit

\* app.py:225-230 and investigator.py:30-98 -- the next attempt: status
\* investigating, a new AgentDeps with the full sandbox budget, the agent run
\* starts.
InvestigateIncident ==
  /\ UNCHANGED nonToolVars
  /\ t_pc = "idle"
  /\ t_calls < MaxAttemptsBound
  /\ t_calls' = t_calls + 1
  /\ t_status' = "investigating"
  /\ sandbox_runs_remaining' = MAX_SANDBOX_RUNS
  /\ t_tool_calls' = 0
  /\ t_pc' = "run"
  /\ UNCHANGED <<t_started, t_ret, t_inflight>>

\* An exception that leaves a tool leaves agent.iter and investigate_incident
\* (investigator.py:159-165) and reaches the Phase 1 handler of the pipeline
\* (app.py:261-273); the tool calls still awaited are cancelled.
ToolRaised ==
  /\ t_status' = "failed"
  /\ t_pc' = "ended"
  /\ t_ret' = NoToolCall
  /\ t_inflight' = 0

\* tools.py:36-196 -- one of the five repository tools is called.
RepoToolCall(tool, ending) ==
  /\ UNCHANGED nonToolVars
  /\ t_pc = "run"
  /\ t_tool_calls < MaxToolCalls
  /\ ending \in RepoEndings(tool)
  /\ t_tool_calls' = t_tool_calls + 1
  /\ IF ending.raised = "None" \/ CaughtByWrapper(ending.raised)
     THEN /\ t_ret' = ToolResult(tool, ending)
          /\ UNCHANGED <<t_pc, t_status, t_inflight>>
     ELSE ToolRaised
  /\ UNCHANGED <<t_calls, sandbox_runs_remaining, t_started>>

\* A run_sandbox that takes a run without looking at the budget.
RunSandboxUnmetered ==
  /\ UNCHANGED nonToolVars
  /\ t_pc = "run"
  /\ t_tool_calls < MaxToolCalls
  /\ t_tool_calls' = t_tool_calls + 1
  /\ sandbox_runs_remaining' = sandbox_runs_remaining - 1
  /\ t_started' = t_started + 1
  /\ t_inflight' = t_inflight + 1
  /\ UNCHANGED <<t_calls, t_status, t_pc, t_ret>>

\* tools.py:221-247 -- run_sandbox up to the await of run_single_sandbox.
\* The tool calls of one model response run as tasks of the event loop, so
\* a call can start while others await their sandbox; the budget check
\* and the decrement (tools.py:224-234) have no await between them.
RunSandbox ==
  /\ UNCHANGED nonToolVars
  /\ t_pc = "run"
  /\ t_tool_calls < MaxToolCalls
  /\ t_tool_calls' = t_tool_calls + 1
  /\ IF sandbox_runs_remaining <= 0
     THEN /\ t_ret' = BudgetExhausted
          /\ UNCHANGED <<sandbox_runs_remaining, t_started, t_inflight>>
     ELSE /\ sandbox_runs_remaining' = sandbox_runs_remaining - 1
          /\ t_started' = t_started + 1
          /\ t_inflight' = t_inflight + 1
          /\ UNCHANGED t_ret
  /\ UNCHANGED <<t_calls, t_status, t_pc>>

\* tools.py:249-277 -- run_single_sandbox returns or raises, and run_sandbox
\* returns the formatted output or the "Sandbox error" text.
RunSingleSandboxDone ==
  /\ UNCHANGED nonToolVars
  /\ t_pc = "run"
  /\ t_inflight > 0
  /\ \E ending \in SandboxRunEndings :
       IF ending.raised = "None" \/ CaughtByWrapper(ending.raised)
       THEN /\ t_ret' = ToolResult("run_sandbox", ending)
            /\ t_inflight' = t_inflight - 1
            /\ UNCHANGED <<t_pc, t_status>>
       ELSE ToolRaised
  /\ UNCHANGED <<t_calls, sandbox_runs_remaining, t_started, t_tool_calls>>

\* investigator.py:101-165 and app.py:253-273 -- the agent run ends: with a
\* verdict (status fix_proposed), or with an exception of the model call.
AgentRunDone ==
  /\ UNCHANGED nonToolVars
  /\ t_pc = "run"
  /\ t_inflight = 0
  /\ \E ok \in BOOLEAN :
       IF ok
       THEN /\ t_status' = "fix_proposed"
            /\ t_pc' = "verification"
       ELSE /\ t_status' = "failed"
            /\ t_pc' = "ended"
  /\ UNCHANGED <<t_calls, sandbox_runs_remaining, t_started, t_tool_calls, t_ret, t_inflight>>

\* app.py:276-340 -- the pipeline's verification phase and its decision:
\* verified, another attempt, or failed.
VerificationPhase ==
  /\ UNCHANGED nonToolVars
  /\ t_pc = "verification"
  /\ \E fix_verified \in BOOLEAN :
       IF fix_verified
       THEN /\ t_status' = "verified"
            /\ t_pc' = "ended"
       ELSE IF AttemptsRemain(t_calls, MaxAttemptsBound)
            THEN /\ t_status' = "simulating"
                 /\ t_pc' = "idle"
            ELSE /\ t_status' = "failed"
                 /\ t_pc' = "ended"
  /\ UNCHANGED <<t_calls, sandbox_runs_remaining, t_started, t_tool_calls, t_ret, t_inflight>>

ToolNext ==
  \/ InvestigateIncident
  \/ \E tool \in RepoTools : \E ending \in RepoEndings(tool) : RepoToolCall(tool, ending)
  \/ RunSandbox
  \/ RunSingleSandboxDone
  \/ AgentRunDone
  \/ VerificationPhase

\* ------------------------------------------------------------ sandbox runs
\* The verification phases of one incident: per attempt the run of the
\* original code and the run of the fixed code, each a script in a Modal
\* sandbox that writes lines to stdout and stderr and exits, and the log and
\* events _run_in_sandbox_streaming makes of them.
MaxLines == 2

Streams == {"stdout", "stderr"}
NoExitCode == -1
ExitCodes == {0, 1}

\* The k-th line a script writes, and the text of the exit entry.
Line(k) == <<"line", k>>
ExitLine(code) == <<"exit_code", code>>

\* modal_runner.py:141-142 -- sb.stdout.read() / sb.stderr.read(): the lines
\* of one stream, in the order written.
LinesOfStream(produced, stream) == SelectSeq(produced, LAMBDA l : l.stream = stream)

\* modal_runner.py:150-190 -- the TerminalLogEntry list of one run: the
\* stdout lines, then the stderr lines, then the exit entry.
RunEntries(produced, label, code) ==
  LET out == LinesOfStream(produced, "stdout")
      err == LinesOfStream(produced, "stderr")
  IN  [k \in 1..Len(out) |-> [stream |-> "stdout", data |-> out[k].data, label |-> label]]
      \o [k \in 1..Len(err) |-> [stream |-> "stderr", data |-> err[k].data, label |-> label]]
      \o <<[stream |-> "stdout", data |-> ExitLine(code), label |-> label]>>

\* modal_runner.py:158-195 -- the events published along with the entries.
RunEvents(produced, label, code) ==
  LET entries == RunEntries(produced, label, code)
  IN  [k \in 1..Len(entries) |->
         IF k < Len(entries)
         THEN [type |-> "sandbox_output", label |-> label,
               stream |-> entries[k].stream, data |-> entries[k].data]
         ELSE [type |-> "sandbox_exit", label |-> label,
               stream |-> "None", data |-> ExitLine(code)]]

\* modal_runner.py:157, 174, 190 -- incident.sandbox_terminal_log.append(entry)
ReplaceEntries(log, entries) == entries
AppendEntries(log, entries) == log \o entries

SbInit ==
  /\ s_pc = "agent"
  /\ s_attempt = 1
  /\ s_label = None
  /\ s_produced = <<>>
  /\ s_exit_code = NoExitCode
  /\ s_fix_verified = FALSE
  /\ sandbox_terminal_log = <<>>
  /\ s_events = <<>>

SbIdle == SbInit

\* app.py:276-285 and modal_runner.py:200-250, 118-147 -- the agent run of
\* the attempt is over and run_sandbox_verification is called: it returns at
\* once when there is no code pair, or starts the ORIGINAL-BUGGY run.
StartVerification ==
  /\ UNCHANGED nonSbVars
  /\ s_pc = "agent"
  /\ s_events' = <<>>
  /\ s_produced' = <<>>
  /\ s_exit_code' = NoExitCode
  /\ s_fix_verified' = FALSE
  /\ \E skipped \in BOOLEAN :
       IF skipped
       THEN s_pc' = "result" /\ s_label' = None
       ELSE s_pc' = "running" /\ s_label' = "ORIGINAL-BUGGY"
  /\ UNCHANGED <<s_attempt, sandbox_terminal_log>>

\* The script in the sandbox writes a line to one of its streams.
ScriptWrites(stream) ==
  /\ UNCHANGED nonSbVars
  /\ s_pc = "running"
  /\ Len(s_produced) < MaxLines
  /\ s_produced' = Append(s_produced, [stream |-> stream, data |-> Line(Len(s_produced) + 1)])
  /\ UNCHANGED <<s_pc, s_attempt, s_label, s_exit_code, s_fix_verified,
                 sandbox_terminal_log, s_events>>

\* The script exits; sb.wait() in the executor thread returns.
ScriptExits(code) ==
  /\ UNCHANGED nonSbVars
  /\ s_pc = "running"
  /\ s_pc' = "exited"
  /\ s_exit_code' = code
  /\ UNCHANGED <<s_attempt, s_label, s_produced, s_fix_verified,
                 sandbox_terminal_log, s_events>>

\* modal_runner.py:131-147, 285-295 -- Sandbox.create or sb.wait() raises
\* (infrastructure error, timeout): the verification returns its error
\* result.
SandboxRaises ==
  /\ UNCHANGED nonSbVars
  /\ s_pc = "running"
  /\ s_pc' = "result"
  /\ s_fix_verified' = FALSE
  /\ UNCHANGED <<s_attempt, s_label, s_produced, s_exit_code,
                 sandbox_terminal_log, s_events>>

\* modal_runner.py:147-197, 252-283 -- run_in_executor returns the two
\* streams and the exit code; the entries are appended and the events
\* published; then the FIXED run starts, or the result is built.
ExecutorReturns ==
  /\ UNCHANGED nonSbVars
  /\ s_pc = "exited"
  /\ sandbox_terminal_log' =
       AppendEntries(sandbox_terminal_log, RunEntries(s_produced, s_label, s_exit_code))
  /\ s_events' = s_events \o RunEvents(s_produced, s_label, s_exit_code)
  /\ IF s_label = "ORIGINAL-BUGGY"
     THEN /\ s_label' = "FIXED"
          /\ s_pc' = "running"
          /\ s_produced' = <<>>
          /\ s_exit_code' = NoExitCode
          /\ UNCHANGED s_fix_verified
     ELSE /\ s_pc' = "result"
          /\ s_fix_verified' = (s_exit_code = 0)
          /\ UNCHANGED <<s_label, s_produced, s_exit_code>>
  /\ UNCHANGED s_attempt

\* app.py:286-328 -- the pipeline's decision: verified, feedback and the next
\* attempt with the terminal log cleared, or failed.
Decide ==
  /\ UNCHANGED nonSbVars
  /\ s_pc = "result"
  /\ IF s_fix_verified
     THEN /\ s_pc' = "ended"
          /\ UNCHANGED <<s_attempt, sandbox_terminal_log>>
     ELSE IF AttemptsRemain(s_attempt, MaxAttemptsBound)
          THEN /\ sandbox_terminal_log' = <<>>
               /\ s_attempt' = s_attempt + 1
               /\ s_pc' = "agent"
          ELSE /\ s_pc' = "ended"
               /\ UNCHANGED <<s_attempt, sandbox_terminal_log>>
  /\ UNCHANGED <<s_label, s_produced, s_exit_code, s_fix_verified, s_events>>

SbNext ==
  \/ StartVerification
  \/ \E stream \in Streams : ScriptWrites(stream)
  \/ \E code \in ExitCodes : ScriptExits(code)
  \/ SandboxRaises
  \/ ExecutorReturns
  \/ Decide

\* ------------------------------------------------------- retry feedback
\* The feedback the pipeline composes after a verification that did not
\* pass.  A line of the terminal log is its number in the log, a character
\* of the raw output is its position in it: the block is modelled by which
\* lines and which positions it holds.
MaxOver == 2
LineChars == 20

\* app.py:195 and app.py:204 -- the two slices.
TerminalLogCap == 100
RawOutputCap == 2000

\* modal_runner.py:294 -- len("Sandbox error: ")
SandboxErrorPrefixLen == 15
\* modal_runner.py:231 -- len("Skipped: missing original or fixed code")
SkippedOutputLen == 39

\* Lengths of str(e) of an exception raised in a sandbox run.
ErrorTextLens == {1, RawOutputCap, RawOutputCap + MaxOver}

Max2(a, b) == IF a >= b THEN a ELSE b
Min2(a, b) == IF a <= b THEN a ELSE b

\* modal_runner.py:266-268 -- len("\n".join(...)) over the terminal log, each
\* formatted entry LineChars characters long.
JoinedLen(log) == IF Len(log) = 0 THEN 0 ELSE Len(log) * LineChars + (Len(log) - 1)

\* app.py:192-198 -- incident.sandbox_terminal_log[-100:]; an empty log
\* gives no section.
TerminalSectionWhole(log) == log
TerminalSection(log) == SubSeq(log, Max2(1, Len(log) - TerminalLogCap + 1), Len(log))

\* app.py:200-205 -- incident.sandbox_output[:2000]; an empty output gives
\* no section.
RawOutputSection(output_len) == 1..Min2(output_len, RawOutputCap)

NoBlock == [terminal |-> <<>>, raw |-> {}]

FbInit ==
  /\ f_pc = "verifying"
  /\ f_attempt = 1
  /\ f_log = <<>>
  /\ f_output_len = 0
  /\ f_fix_verified = FALSE
  /\ f_block = NoBlock

FbIdle == FbInit

\* modal_runner.py:157, 174, 190 -- a line of a sandbox run is appended to the
\* terminal log.
FbAppendLine ==
  /\ UNCHANGED nonFbVars
  /\ f_pc = "verifying"
  /\ Len(f_log) < TerminalLogCap + MaxOver
  /\ f_log' = Append(f_log, Len(f_log) + 1)
  /\ UNCHANGED <<f_pc, f_attempt, f_output_len, f_fix_verified, f_block>>

\* modal_runner.py:221-232 and app.py:286-288 -- no code pair: the
\* verification returns before any run.
FbSkipped ==
  /\ UNCHANGED nonFbVars
  /\ f_pc = "verifying"
  /\ f_log = <<>>
  /\ f_pc' = "result"
  /\ f_fix_verified' = FALSE
  /\ f_output_len' = SkippedOutputLen
  /\ UNCHANGED <<f_attempt, f_log, f_block>>

\* modal_runner.py:263-283 and app.py:286-288 -- both runs are over: the
\* output is the terminal log joined.
FbVerificationReturns(fix_passed) ==
  /\ UNCHANGED nonFbVars
  /\ f_pc = "verifying"
  /\ f_log # <<>>
  /\ f_pc' = "result"
  /\ f_fix_verified' = fix_passed
  /\ f_output_len' = JoinedLen(f_log)
  /\ UNCHANGED <<f_attempt, f_log, f_block>>

\* modal_runner.py:285-295 and app.py:286-288 -- a sandbox run raises: the
\* output is the error text.
FbSandboxError(n) ==
  /\ UNCHANGED nonFbVars
  /\ f_pc = "verifying"
  /\ f_pc' = "result"
  /\ f_fix_verified' = FALSE
  /\ f_output_len' = SandboxErrorPrefixLen + n
  /\ UNCHANGED <<f_attempt, f_log, f_block>>

\* app.py:290-307, 318-328 -- verified, or the feedback for the next attempt
\* is composed, or the last attempt has failed.
FbDecide ==
  /\ UNCHANGED nonFbVars
  /\ f_pc = "result"
  /\ IF ~f_fix_verified /\ AttemptsRemain(f_attempt, MaxAttemptsBound)
     THEN /\ f_block' = [terminal |-> TerminalSection(f_log),
                         raw |-> RawOutputSection(f_output_len)]
          /\ f_pc' = "composed"
     ELSE /\ f_pc' = "ended"
          /\ UNCHANGED f_block
  /\ UNCHANGED <<f_attempt, f_log, f_output_len, f_fix_verified>>

\* app.py:317 and app.py:225 -- the terminal log is cleared and the next
\* attempt starts.
FbClearLog ==
  /\ UNCHANGED nonFbVars
  /\ f_pc = "composed"
  /\ f_log' = <<>>
  /\ f_attempt' = f_attempt + 1
  /\ f_pc' = "verifying"
  /\ UNCHANGED <<f_output_len, f_fix_verified, f_block>>

FbNext ==
  \/ FbAppendLine
  \/ FbSkipped
  \/ \E fix_passed \in BOOLEAN : FbVerificationReturns(fix_passed)
  \/ \E n \in ErrorTextLens : FbSandboxError(n)
  \/ FbDecide
  \/ FbClearLog

\* ------------------------------------------------------ search and replace
\* search_and_replace on texts long enough for old to occur several times,
\* apart and overlapping (repo_context.py:128-144).
ContentLen == 3
OldLen == 2
NewLen == 1

NoReturn == [op |-> "none"]

RepInit ==
  /\ r_pc = "call"
  /\ r_content \in TextsUpTo(ContentLen)
  /\ r_old \in TextsUpTo(OldLen)
  /\ r_new \in TextsUpTo(NewLen)
  /\ r_text = r_content
  /\ r_ret = NoReturn

RepIdle ==
  /\ r_pc = "call"
  /\ r_content = <<>>
  /\ r_old = <<>>
  /\ r_new = <<>>
  /\ r_text = <<>>
  /\ r_ret = NoReturn

\* repo_context.py:130-144 -- search_and_replace on an existing file.
ReplaceCall ==
  /\ UNCHANGED nonRepVars
  /\ r_pc = "call"
  /\ r_pc' = "done"
  /\ IF ~Contains(r_text, r_old)
     THEN /\ r_ret' = [op |-> "search_and_replace", returned |-> "String not found", count |-> 0]
          /\ UNCHANGED r_text
     ELSE /\ r_text' = ReplaceFirst(r_text, r_old, r_new)
          /\ r_ret' = [op |-> "search_and_replace", returned |-> "Replaced 1 occurrence",
                       count |-> CountOcc(r_text, r_old)]
  /\ UNCHANGED <<r_content, r_old, r_new>>

\* The agent goes on to another file and another call.
ReplaceAgain ==
  /\ UNCHANGED nonRepVars
  /\ r_pc = "done"
  /\ r_pc' = "call"
  /\ r_ret' = NoReturn
  /\ \E content \in TextsUpTo(ContentLen), old \in TextsUpTo(OldLen), new \in TextsUpTo(NewLen) :
       /\ r_content' = content
       /\ r_text' = content
       /\ r_old' = old
       /\ r_new' = new

RepNext ==
  \/ ReplaceCall
  \/ ReplaceAgain

\* ------------------------------------------------------------ shared bus
\* The one EventBus of the process (event_bus.py:74) with the pipelines of
\* several incidents publishing and closing, and subscribers of either.  An
\* item in a queue is noted with the incident id of the call that put it
\* there; the sentinel is the item numbered 0.
EventsPerIncident == 2

SharedIncidents == {"A", "B"}

EventOf(i, n) == [inc |-> i, n |-> n]
SentinelOf(i) == [inc |-> i, n |-> 0]

\* A bus that keeps one list of queues for all incident ids.
AllQueues(subs, i) ==
  LET ids == DOMAIN subs
  IN  IF ids = {} THEN <<>>
      ELSE IF "A" \in ids /\ "B" \in ids THEN subs["A"] \o subs["B"]
      ELSE subs[CHOOSE id \in ids : TRUE]

\* event_bus.py:31, 64 -- self._subscribers.get(incident_id, [])
QueuesFor(subs, i) == IF i \in DOMAIN subs THEN subs[i] ELSE <<>>

SharedInit ==
  /\ m_subscribers = [i \in {} |-> <<>>]
  /\ m_of = [s \in Subscribers |-> "None"]
  /\ m_queue = [s \in Subscribers |-> <<>>]
  /\ m_pc = [s \in Subscribers |-> "none"]
  /\ m_received = [s \in Subscribers |-> {}]
  /\ m_ended_by = [s \in Subscribers |-> "None"]
  /\ m_published = [i \in SharedIncidents |-> 0]
  /\ m_closed = [i \in SharedIncidents |-> FALSE]

SharedIdle == SharedInit

\* event_bus.py:38-50 -- subscribe(incident_id) up to its first await.
SubscribeTo(s, i) ==
  /\ UNCHANGED nonSharedVars
  /\ m_pc[s] = "none"
  /\ m_subscribers' =
       [id \in DOMAIN m_subscribers \cup {i} |->
          IF id = i THEN Append(QueuesFor(m_subscribers, i), s) ELSE m_subscribers[id]]
  /\ m_of' = [m_of EXCEPT ![s] = i]
  /\ m_pc' = [m_pc EXCEPT ![s] = "waiting"]
  /\ UNCHANGED <<m_queue, m_received, m_ended_by, m_published, m_closed>>

\* event_bus.py:25-36 -- publish(incident_id, event)
PublishFor(i) ==
  /\ UNCHANGED nonSharedVars
  /\ ~m_closed[i]
  /\ m_published[i] < EventsPerIncident
  /\ m_published' = [m_published EXCEPT ![i] = @ + 1]
  /\ m_queue' = [s \in Subscribers |->
                   IF InList(QueuesFor(m_subscribers, i), s)
                   THEN PutNowait(m_queue[s], EventOf(i, m_published[i] + 1))
                   ELSE m_queue[s]]
  /\ UNCHANGED <<m_subscribers, m_of, m_pc, m_received, m_ended_by, m_closed>>

\* event_bus.py:62-69 -- close_stream(incident_id)
CloseStreamOf(i) ==
  /\ UNCHANGED nonSharedVars
  /\ ~m_closed[i]
  /\ m_closed' = [m_closed EXCEPT ![i] = TRUE]
  /\ m_queue' = [s \in Subscribers |->
                   IF InList(QueuesFor(m_subscribers, i), s)
                   THEN PutNowait(m_queue[s], SentinelOf(i))
                   ELSE m_queue[s]]
  /\ UNCHANGED <<m_subscribers, m_of, m_pc, m_received, m_ended_by, m_published>>

\* event_bus.py:48-60 -- one turn of a subscriber's loop: an event is
\* yielded; the sentinel ends the loop and the finally block removes the
\* queue from the list of the subscriber's incident id, and the emptied list.
GetFrom(s) ==
  /\ UNCHANGED nonSharedVars
  /\ m_pc[s] = "waiting"
  /\ m_queue[s] # <<>>
  /\ m_queue' = [m_queue EXCEPT ![s] = Tail(@)]
  /\ IF Head(m_queue[s]).n = 0
     THEN /\ m_pc' = [m_pc EXCEPT ![s] = "ended"]
          /\ m_ended_by' = [m_ended_by EXCEPT ![s] = Head(m_queue[s]).inc]
          /\ m_subscribers' =
               LET rest == RemoveFrom(m_subscribers[m_of[s]], s)
                   keep == IF rest = <<>> THEN DOMAIN m_subscribers \ {m_of[s]}
                                          ELSE DOMAIN m_subscribers
               IN  [id \in keep |-> IF id = m_of[s] THEN rest ELSE m_subscribers[id]]
          /\ UNCHANGED m_received
     ELSE /\ m_received' = [m_received EXCEPT ![s] = @ \cup {Head(m_queue[s])}]
          /\ UNCHANGED <<m_pc, m_ended_by, m_subscribers>>
  /\ UNCHANGED <<m_of, m_published, m_closed>>

SharedNext ==
  \/ \E s \in Subscribers, i \in SharedIncidents : SubscribeTo(s, i)
  \/ \E i \in SharedIncidents : PublishFor(i)
  \/ \E i \in SharedIncidents : CloseStreamOf(i)
  \/ \E s \in Subscribers : GetFrom(s)

\* ------------------------------------------------------- specifications
PipeIdle ==
  /\ max_attempts = 1
  /\ status = "detected"
  /\ pc = "created"
  /\ attempt = 0
  /\ repo = None
  /\ clone_exists = FALSE
  /\ stream_closed = 0
  /\ retry_context = NoFeedback
  /\ file_edits = <<>>
  /\ original_code = ""
  /\ fixed_code = ""
  /\ sandbox_reproduced = None
  /\ sandbox_fix_verified = None
  /\ sandbox_output = None
  /\ original_passed = None
  /\ result = NoResult
  /\ agent_calls = 0
  /\ sandbox_phases = 0
  /\ pr_url = None
  /\ approve_resp = None
  /\ agent_events = <<>>
  /\ published = <<>>
  /\ feedback_count = 0
  /\ reset_calls = 0
  /\ agent_prompt = NoFeedback
  /\ pr_calls = 0
  /\ prs_created = 0

WcIdle ==
  /\ wc_exists = {}
  /\ wc_text = [f \in WFiles |-> <<>>]
  /\ originals = <<>>
  /\ wc_ret = [op |-> "clone"]
  /\ wc_ops = 0
  /\ touched_by = [f \in WFiles |-> {}]
  /\ first_before = [p \in Paths |-> <<"untouched">>]
  /\ wc_checkout = [f \in WFiles |-> [exists |-> FALSE, text |-> <<>>]]

\* One incident's pipeline together with approve calls.
Init == PipeInit /\ CloneIdle /\ WcIdle /\ PathIdle /\ GrepIdle /\ BusIdle /\ ToolIdle /\ SbIdle /\ FbIdle /\ RepIdle /\ SharedIdle
Next == PipeNext
Spec == Init /\ [][Next]_vars

\* The checkouts of concurrently running incidents.
CloneInit == CloneIdle /\ PipeIdle /\ WcIdle /\ PathIdle /\ GrepIdle /\ BusIdle /\ ToolIdle /\ SbIdle /\ FbIdle /\ RepIdle /\ SharedIdle
CloneSpec == CloneInit /\ [][CloneNext]_vars

\* The tool calls of an agent run on one working copy.
WcSpecInit == WcInit /\ PipeIdle /\ CloneIdle /\ PathIdle /\ GrepIdle /\ BusIdle /\ ToolIdle /\ SbIdle /\ FbIdle /\ RepIdle /\ SharedIdle
WcSpec == WcSpecInit /\ [][WcNext]_vars

\* The file operations of one working copy on paths in and around clone_dir.
PathSpecInit == PathInit /\ PipeIdle /\ CloneIdle /\ WcIdle /\ GrepIdle /\ BusIdle /\ ToolIdle /\ SbIdle /\ FbIdle /\ RepIdle /\ SharedIdle
PathSpec == PathSpecInit /\ [][PathNext]_vars

\* grep() over every tree of the bounds.
GrepSpecInit == GrepInit /\ PipeIdle /\ CloneIdle /\ WcIdle /\ PathIdle /\ BusIdle /\ ToolIdle /\ SbIdle /\ FbIdle /\ RepIdle /\ SharedIdle
GrepSpec == GrepSpecInit /\ [][GrepNext]_vars

\* The bus with subscribers that join at any time.
BusSpecInit == BusInit /\ PipeIdle /\ CloneIdle /\ WcIdle /\ PathIdle /\ GrepIdle /\ ToolIdle /\ SbIdle /\ FbIdle /\ RepIdle /\ SharedIdle
BusSpec == BusSpecInit /\ [][BusNext]_vars

\* The same with subscribers that keep reading: a subscriber whose queue
\* holds an item eventually takes it.
BusFairSpec == BusSpec /\ \A s \in Subscribers : WF_vars(Get(s))

\* The agent runs of one incident with their tool calls.
ToolSpecInit == ToolInit /\ PipeIdle /\ CloneIdle /\ WcIdle /\ PathIdle /\ GrepIdle /\ BusIdle /\ SbIdle /\ FbIdle /\ RepIdle /\ SharedIdle
ToolSpec == ToolSpecInit /\ [][ToolNext]_vars

\* The verification phases of one incident with their sandbox runs.
SbSpecInit == SbInit /\ PipeIdle /\ CloneIdle /\ WcIdle /\ PathIdle /\ GrepIdle /\ BusIdle /\ ToolIdle /\ FbIdle /\ RepIdle /\ SharedIdle
SbSpec == SbSpecInit /\ [][SbNext]_vars

\* The verification phases of one incident with the feedback composed of them.
FbSpecInit == FbInit /\ PipeIdle /\ CloneIdle /\ WcIdle /\ PathIdle /\ GrepIdle /\ BusIdle /\ ToolIdle /\ SbIdle /\ RepIdle /\ SharedIdle
FbSpec == FbSpecInit /\ [][FbNext]_vars

\* search_and_replace calls over every content, old and new of the bounds.
RepSpecInit == RepInit /\ PipeIdle /\ CloneIdle /\ WcIdle /\ PathIdle /\ GrepIdle /\ BusIdle /\ ToolIdle /\ SbIdle /\ FbIdle /\ SharedIdle
RepSpec == RepSpecInit /\ [][RepNext]_vars

\* The shared bus with two incidents and subscribers of either.
SharedSpecInit == SharedInit /\ PipeIdle /\ CloneIdle /\ WcIdle /\ PathIdle /\ GrepIdle /\ BusIdle /\ ToolIdle /\ SbIdle /\ FbIdle /\ RepIdle
SharedSpec == SharedSpecInit /\ [][SharedNext]_vars

\* ------------------------------------------------------------------ claims

\* The status graph as declared: detected -> investigating -> fix_proposed ->
\* simulating -> {verified | failed} -> pr_created -> resolved.
DeclaredEdges ==
  {<<"detected", "investigating">>, <<"investigating", "fix_proposed">>,
   <<"fix_proposed", "simulating">>, <<"simulating", "verified">>,
   <<"simulating", "failed">>, <<"verified", "pr_created">>,
   <<"failed", "pr_created">>, <<"pr_created", "resolved">>}

\* The two edges the retry loop and the Phase 1 handler add.
PipelineEdges ==
  DeclaredEdges \cup {<<"simulating", "investigating">>, <<"investigating", "failed">>}

\* C1 (as claimed): every change of Incident.status is an edge of the
\* declared graph.
C1_DeclaredGraphOnly ==
  [][status' # status => <<status, status'>> \in DeclaredEdges]_vars

\* C1 (amended): every change of Incident.status is an edge of the declared
\* graph, or simulating -> investigating (a retry after a failed
\* verification), or investigating -> failed (checkout failure or
\* reasoning-step exception).
C1_GraphWithRetryAndAbort ==
  [][status' # status => <<status, status'>> \in PipelineEdges]_vars

\* C1 witness: a retry has happened and the incident was then approved.
C1_Witness == status = "pr_created" /\ attempt >= 2

\* C2: the agent is started at most max_attempts times, and once a
\* verification has passed the status is verified (or pr_created after an
\* approve) and the pipeline is past its loop, so no further attempt starts.
C2_BoundedAttempts ==
  /\ agent_calls <= max_attempts
  /\ attempt <= max_attempts
  /\ (result # NoResult /\ result.fix_verified /\ pc # "p2_result")
       => /\ status \in {"verified", "pr_created"}
          /\ pc \in {"exit", "done"}
          /\ agent_calls = attempt

\* C2 witness: the second attempt passed with an attempt still unused.
C2_Witness ==
  /\ pc = "done" /\ status = "verified"
  /\ agent_calls = 2 /\ max_attempts > 2

\* C3: status verified only with a verification that ran both sandbox runs
\* and returned fix_verified true (not skipped, not failed, not an error).
C3_VerifiedNeedsPass ==
  status = "verified"
    => /\ result # NoResult
       /\ result.output = "Log"
       /\ result.fix_verified
       /\ sandbox_fix_verified = TRUE

\* C3 witness: verified was reached.
C3_Witness == status = "verified" /\ pc = "exit"

\* C4: when the pipeline task ends, the status is verified or failed.
C4_EndsVerifiedOrFailed ==
  [][(pc' = "done" /\ pc # "done") => status' \in {"verified", "failed"}]_vars

\* C5: a pipeline that ended in failed has removed its checkout and has
\* called close_stream.
C5_FatalPathsDispose ==
  (pc = "done" /\ status = "failed") => (~clone_exists /\ stream_closed >= 1)

\* C6: the Phase 1 handler sets failed and ends the task, and an ended task
\* starts no verification phase and no attempt.
C6_Phase1ErrorAborts ==
  [][/\ (pc = "p1_except") => (status' = "failed" /\ pc' = "done")
     /\ (pc \in {"p1_except", "done"})
          => /\ pc' = "done"
             /\ UNCHANGED <<agent_calls, sandbox_phases, attempt>>]_vars

\* C6 witness: the pipeline ended failed on a retry that was not the last
\* attempt (only a reasoning-step exception does that), without a
\* verification phase in that attempt.
C6_Witness ==
  /\ pc = "done" /\ status = "failed"
  /\ attempt >= 2 /\ attempt < max_attempts
  /\ sandbox_phases = attempt - 1

\* C7: a verification that ended in a sandbox error or timeout leaves the
\* status alone, stores feedback and loops to the next attempt when an
\* attempt remains, and sets failed on the final attempt; the looped-to
\* attempt then starts with the feedback.
C7_SandboxErrorRetries ==
  [][/\ (pc = "p2_result" /\ result.output = "SandboxError")
          => IF attempt < max_attempts
             THEN /\ status' = status /\ status' = "simulating"
                  /\ retry_context' = FormatSandboxFeedback(FALSE, FALSE, "SandboxError")
                  /\ pc' = "loop"
             ELSE status' = "failed"
     /\ (pc = "loop" /\ attempt >= 1 /\ attempt < max_attempts)
          => /\ attempt' = attempt + 1
             /\ pc' = "agent"
             /\ agent_calls' = agent_calls + 1
             /\ retry_context' # NoFeedback]_vars

\* C7 witness: the agent runs again, with feedback, after a sandbox error.
C7_Witness ==
  /\ pc = "agent" /\ attempt >= 2
  /\ result = ErrorResult
  /\ retry_context = FormatSandboxFeedback(FALSE, FALSE, "SandboxError")
  /\ status = "investigating"

\* C8: once the status is pr_created it stays pr_created.
C8_PrCreatedStable ==
  [][status = "pr_created" => status' = "pr_created"]_vars

\* C8 witness: an approve call was accepted and set pr_created.
C8_Witness == status = "pr_created" /\ pc = "done" /\ approve_resp = "200"

\* An incident's pipeline holds, or is making, a checkout.
HoldsCheckout(i) == c_pc[i] \in {"cloning", "agent"}

\* C9: two incidents whose pipelines overlap have distinct checkout
\* directories, and no step leaves an incident that is working on its
\* checkout without the files of that checkout unless it is that incident's
\* own step.
C9_ExclusiveCheckouts ==
  /\ [](\A i, j \in Incidents :
          (i # j /\ HoldsCheckout(i) /\ HoldsCheckout(j)) => clone_dir[i] # clone_dir[j])
  /\ [][\A j \in Incidents :
          (c_pc[j] = "agent" /\ c_pc'[j] = "agent" /\ fs[clone_dir[j]] = j)
            => fs'[clone_dir[j]] = j]_vars

\* The path had a write/replace call since the last reset and its file was
\* changed through no other spelling since then.
OwnSequence(path) == touched_by[Resolve(path)] = {path}

EditsFor(edits, path) == {k \in 1..Len(edits) : edits[k].file_path = path}

\* C10 (as claimed): after a sequence of writes/replaces on a path fresh since
\* the last reset, diff() holds a FileEdit for the path from the text before
\* the first call to the text after the last.
C10_DiffReportsFirstToLast ==
  wc_ret.op = "get_file_edits"
    => \A path \in Paths :
         OwnSequence(path)
           => \E k \in EditsFor(wc_ret.edits, path) :
                /\ wc_ret.edits[k].original_content = first_before[path]
                /\ wc_ret.edits[k].new_content =
                     TextOrEmpty(wc_exists, wc_text, Resolve(path))

\* C10 (amended): after such a sequence, when the text after the last call
\* differs from the text before the first, diff() holds exactly one FileEdit
\* for the path, from the one to the other; when the two are equal it holds
\* none for the path.
C10_DiffReportsNetChange ==
  wc_ret.op = "get_file_edits"
    => \A path \in Paths :
         OwnSequence(path)
           => LET now == TextOrEmpty(wc_exists, wc_text, Resolve(path))
                  ks == EditsFor(wc_ret.edits, path)
              IN  IF now = first_before[path]
                  THEN ks = {}
                  ELSE /\ Cardinality(ks) = 1
                       /\ \A k \in ks :
                            /\ wc_ret.edits[k].original_content = first_before[path]
                            /\ wc_ret.edits[k].new_content = now

\* C10 witness: diff() after a write and then a replace of one path that
\* ends at a text other than the one it started from, and other than the
\* one the first call left.
C10_Witness ==
  /\ wc_ret.op = "get_file_edits"
  /\ wc_ops = 2
  /\ OwnSequence("a.txt")
  /\ Len(wc_ret.edits) = 1
  /\ wc_ret.edits[1].original_content = <<"x">>
  /\ wc_ret.edits[1].new_content = <<>>

\* C11: get_file_edits() called right after reset_edit_tracking() returns no
\* FileEdit, whatever writes and replaces came before.
C11_ResetThenDiffIsEmpty ==
  [][(wc_ret.op = "reset_edit_tracking" /\ wc_ret'.op = "get_file_edits")
       => wc_ret'.edits = <<>>]_vars

\* C11 witness: diff() right after a reset that followed two edits, with both
\* spellings of a changed file tracked.
C11_Witness ==
  /\ wc_ret.op = "get_file_edits"
  /\ wc_ret.after = "reset_edit_tracking"
  /\ wc_ret.edits = <<>>
  /\ wc_ops = 2
  /\ Len(originals) = 2
  /\ "a.txt" \in wc_exists /\ wc_text["a.txt"] = <<"y">>

\* C12: a call whose path resolves to a location that is not clone_dir or
\* below it is rejected as a traversal, reads and writes no file and adds no
\* baseline.
C12_ResolutionStaysInRoot ==
  (p_ret.op # "clone" /\ ~RelativeToClone(ResolvedOf(p_ret.path)))
    => /\ p_ret.out = "Path traversal detected"
       /\ p_ret.io = {}
       /\ p_ret.snapshot = FALSE

\* C13: a search_and_replace call on an existing file that does not hold `old`
\* leaves the files and the baselines as they were and returns the
\* "String not found" message, which carries no match count; the number of
\* occurrences of `old` is zero.
C13_ReplaceAbsentChangesNothing ==
  [][\A path \in Paths, old \in Texts, new \in Texts :
       (/\ SearchAndReplace(path, old, new)
        /\ Resolve(path) \in wc_exists
        /\ ~Contains(wc_text[Resolve(path)], old))
         => /\ UNCHANGED <<wc_text, wc_exists, originals>>
            /\ wc_ret' = [op |-> "search_and_replace", returned |-> "String not found"]
            /\ CountOcc(wc_text[Resolve(path)], old) = 0]_vars

\* C13 witness: a replace that did not find its string in a file that an
\* earlier write had created with other content.
C13_Witness ==
  /\ wc_ret = [op |-> "search_and_replace", returned |-> "String not found"]
  /\ wc_ops = 2
  /\ Len(originals) = 1
  /\ "b.txt" \in wc_exists /\ wc_text["b.txt"] = <<"x">>
  /\ touched_by["b.txt"] = {"b.txt"}

\* The number of matching lines of a tree.
RECURSIVE MatchingLines(_)
MatchingLines(tree) ==
  IF tree = <<>> THEN 0
  ELSE (Head(tree).lines \div Head(tree).stride) + MatchingLines(Tail(tree))

ResultLines(results) == {n \in 1..Len(results) : results[n] # TruncationMarker}

HasMarker(results) == \E n \in 1..Len(results) : results[n] = TruncationMarker

\* C14: grep over a tree with K matching lines returns min(K, 50) result
\* lines, and the truncation marker exactly when K > 50.
C14_TruncationMarkerIffMore ==
  g_ret.op = "grep"
    => LET K == MatchingLines(g_tree)
       IN  /\ Cardinality(ResultLines(g_ret.results)) = (IF K < max_results THEN K ELSE max_results)
           /\ HasMarker(g_ret.results) <=> (K > max_results)

\* C15: a grep call with a malformed pattern on a path inside clone_dir,
\* existing or not, returns the pattern error and has examined no location
\* of the filesystem.
C15_PatternCheckedFirst ==
  (/\ p_ret.op = "grep"
   /\ ~p_ret.pattern_ok
   /\ RelativeToClone(ResolvedOf(p_ret.path)))
    => /\ p_ret.out = "Invalid regex pattern"
       /\ p_ret.stat = {}

\* The events numbered a+1 .. b, in publish order.
EventsFrom(a, b) == [n \in 1..(b - a) |-> a + n]

Registered(s) == InList(QueuesOf(b_subscribers), s)

\* C16: a subscriber that joined before close_stream and for which at most
\* QueueMaxSize events were published after it joined eventually has its
\* stream ended, having been yielded exactly those events in publish order,
\* and is no longer in the subscriber map.
C16_JoinedSubscriberSeesAllThenEnds ==
  \A s \in Subscribers :
    []((/\ b_closed
        /\ b_pc[s] = "waiting"
        /\ ~b_late[s]
        /\ b_published - b_joined_at[s] <= QueueMaxSize)
         => <>(/\ b_pc[s] = "ended"
               /\ b_received[s] = EventsFrom(b_joined_at[s], b_published)
               /\ ~Registered(s)))

\* C17: a publish step appends the event to the queue of every registered
\* subscriber that has room and leaves a full queue exactly as it was; the
\* step is taken whatever the queues hold.
C17_PublishDropsForFullOnly ==
  [][b_published' # b_published
       => /\ b_published' = b_published + 1
          /\ \A s \in Subscribers :
               b_queue'[s] =
                 IF ~Registered(s) THEN b_queue[s]
                 ELSE IF Len(b_queue[s]) = QueueMaxSize THEN b_queue[s]
                 ELSE Append(b_queue[s], b_published')]_vars

\* C17 witness: the last event was dropped for a subscriber whose queue was
\* full of earlier events, and is queued for another subscriber.
C17_Witness ==
  /\ b_published = QueueMaxSize + 1
  /\ b_queue["s1"] = EventsFrom(0, QueueMaxSize)
  /\ b_received["s1"] = <<>>
  /\ b_pc["s2"] = "waiting"
  /\ b_queue["s2"] # <<>>
  /\ b_queue["s2"][Len(b_queue["s2"])] = b_published

\* C18: every subscriber registered when close_stream runs eventually has
\* its stream ended, whatever its queue held at that moment.
C18_CloseEndsEveryRegisteredStream ==
  \A s \in Subscribers :
    []((b_closed /\ b_pc[s] = "waiting" /\ ~b_late[s]) => <>(b_pc[s] = "ended"))

\* C19: a subscriber that subscribes after close_stream is yielded none of
\* the events published before, and its stream eventually ends.
C19_LateSubscriberEnds ==
  \A s \in Subscribers :
    /\ [](b_late[s] => b_received[s] = <<>>)
    /\ []((b_late[s] /\ b_pc[s] = "waiting") => <>(b_pc[s] = "ended"))

NewEntries(before, after) == {after[n] : n \in (Len(before) + 1)..Len(after)}

\* C20: every step that changes Incident.status, and every step in which
\* the checkout or the agent run raises, publishes an event for it and
\* appends an entry for it to agent_events.
C20_TransitionsAuditedAndPublished ==
  [][/\ status' # status
          => /\ StatusChange(status') \in NewEntries(published, published')
             /\ "status_change" \in NewEntries(agent_events, agent_events')
     /\ (pc' = "p1_except" /\ pc # "p1_except")
          => /\ ErrorEvent \in NewEntries(published, published')
             /\ "error" \in NewEntries(agent_events, agent_events')]_vars

\* C21: over the whole incident at most MAX_SANDBOX_RUNS run_sandbox requests
\* start a sandbox, and a request made with the budget used up returns the
\* explanatory message, starts no sandbox and raises nothing (the agent run
\* goes on, the status stays).
C21_SandboxRunsMeteredPerIncident ==
  [][/\ t_started' <= MAX_SANDBOX_RUNS
     /\ (RunSandbox /\ sandbox_runs_remaining <= 0)
          => /\ t_ret' = BudgetExhausted
             /\ t_started' = t_started
             /\ t_pc' = "run"
             /\ t_status' = t_status]_vars

\* The operation-local errors of the working copy: file not found, not a
\* file, old string absent, malformed pattern, path escape.
OperationLocalErrors ==
  {"File not found", "Not a file", "String not found", "Invalid regex pattern",
   "Path traversal detected"}

\* C26: a repository tool call that ends in an operation-local error hands
\* the error text back to the agent as its result; the incident status stays
\* as it was and the agent run goes on.
C26_ToolErrorsStayInTool ==
  [][\A tool \in RepoTools : \A ending \in RepoEndings(tool) :
       (RepoToolCall(tool, ending) /\ ending.text \in OperationLocalErrors)
         => /\ t_ret'.tool = tool
            /\ t_ret'.text = ending.text
            /\ t_status' = t_status
            /\ t_pc' = "run"]_vars

\* C26 witness: read_file of a missing file has returned its error text, the
\* status is still investigating and the agent run is still open.
C26_Witness ==
  /\ t_ret = [tool |-> "read_file", kind |-> "error_text", text |-> "File not found"]
  /\ t_status = "investigating"
  /\ t_pc = "run"
  /\ t_calls = 2

\* C22: the step that follows run_sandbox_verification stores the flags of
\* its result in the incident, over whatever the agent's verdict had put
\* there, and decides by that result alone: verified iff the result says the
\* fix is verified, failed iff it does not and no attempt is left.
C22_PipelineResultAuthoritative ==
  [][(pc = "p2_result" /\ pc' # "p2_result")
       => /\ sandbox_reproduced' = result.reproduced
          /\ sandbox_fix_verified' = result.fix_verified
          /\ (status' = "verified") <=> result.fix_verified
          /\ (status' = "failed")
               <=> (~result.fix_verified /\ ~AttemptsRemain(attempt, max_attempts))]_vars

\* C22 witness: both sandbox runs have ended, the original passing and the
\* fix failing, in an attempt whose agent reported the bug reproduced and
\* the fix verified.
C22_Witness ==
  /\ pc = "p2_result"
  /\ result = RanResult(TRUE, FALSE)
  /\ sandbox_reproduced = TRUE
  /\ sandbox_fix_verified = TRUE
  /\ attempt = max_attempts

\* C23: an attempt whose agent run left no edit (file_edits empty) still
\* enters the verification phase with status simulating; that verification
\* does not pass, so the attempt ends without status verified and is used
\* up: the loop goes on to the next attempt, or to failed when none is left.
C23_ZeroEditsFailVerification ==
  [][/\ (file_edits = <<>> /\ pc = "p2" /\ pc' # pc)
          => (status' = "simulating" /\ sandbox_phases' = sandbox_phases + 1)
     /\ (file_edits = <<>> /\ pc = "p2_result" /\ pc' # pc)
          => /\ ~result.fix_verified
             /\ status' # "verified"
             /\ pc' = "loop"
             /\ attempt' = attempt
             /\ ~AttemptsRemain(attempt, max_attempts) => status' = "failed"]_vars

\* C25: an approve call made in a status other than verified or fix_proposed
\* is rejected (400); a call that is rejected or whose PR creation fails
\* (500) leaves status and pr_url as they were; a call that succeeds was
\* made in verified or fix_proposed and sets pr_url and status pr_created;
\* and nothing but an approve call sets pr_created or pr_url.
C25_ApproveOnlyWhenFixReady ==
  [][/\ Approve
          => /\ status \notin {"verified", "fix_proposed"}
                  => (approve_resp' = "400" /\ UNCHANGED <<status, pr_url>>)
             /\ approve_resp' \in {"400", "500"} => UNCHANGED <<status, pr_url>>
             /\ approve_resp' = "200"
                  => /\ status \in {"verified", "fix_proposed"}
                     /\ status' = "pr_created"
                     /\ pr_url' = "url"
     /\ (status' # status /\ status' = "pr_created") => Approve
     /\ pr_url' # pr_url => Approve]_vars

\* C25 witness: PR creation failed for a verified incident, which is still
\* verified and without a PR; the pipeline had retried once.
C25_Witness ==
  /\ approve_resp = "500"
  /\ status = "verified"
  /\ pr_url = None
  /\ attempt = 2

\* The baselines recorded for a path (one entry at most, see C27).
BaselinesOf(orig, path) == {orig[k].original : k \in {j \in 1..Len(orig) : orig[j].path = path}}

\* C27: between two resets, a write or a replace never changes or drops the
\* baseline of a path that has one; a write, and a replace that finds its
\* string, of a path without a baseline records the text the file held just
\* before the call (the empty text if it did not exist) and records nothing
\* else; a replace that fails records nothing.  So each path gets its
\* baseline at most once, at its first write or successful replace.
C27_BaselineCapturedOncePerWindow ==
  [][/\ \A path \in Paths, content \in Texts :
          WriteFile(path, content)
            => IF Tracked(originals, path)
               THEN originals' = originals
               ELSE originals' =
                      Append(originals,
                             [path |-> path,
                              original |-> TextOrEmpty(wc_exists, wc_text, Resolve(path))])
     /\ \A path \in Paths, old \in Texts, new \in Texts :
          SearchAndReplace(path, old, new)
            => IF /\ ~Tracked(originals, path)
                  /\ Resolve(path) \in wc_exists
                  /\ Contains(wc_text[Resolve(path)], old)
               THEN originals' =
                      Append(originals, [path |-> path, original |-> wc_text[Resolve(path)]])
               ELSE originals' = originals
     /\ \A path \in Paths : Cardinality(BaselinesOf(originals', path)) <= 1]_vars

\* C27 witness: a.txt held "x" and has had two write/replace calls under one
\* spelling, the last a write of "y"; its baseline is "x" and no other path
\* has one.
C27_Witness ==
  /\ originals = <<[path |-> "a.txt", original |-> <<"x">>]>>
  /\ touched_by["a.txt"] = {"a.txt"}
  /\ wc_ops = 2
  /\ wc_ret.op = "write_file"
  /\ wc_text["a.txt"] = <<"y">>

\* C28: what get_file_edits() returns holds a FileEdit for a tracked path
\* exactly when the text of the path's file differs from the path's baseline
\* (so none for a path written back to its baseline), every FileEdit is for a
\* tracked path, from its baseline to the current text, and the two differ.
C28_DiffIffChanged ==
  wc_ret.op = "get_file_edits"
    => /\ \A k \in 1..Len(originals) :
            (EditsFor(wc_ret.edits, originals[k].path) # {})
              <=> originals[k].original #
                    TextOrEmpty(wc_exists, wc_text, Resolve(originals[k].path))
       /\ \A j \in 1..Len(wc_ret.edits) :
            /\ wc_ret.edits[j].original_content # wc_ret.edits[j].new_content
            /\ \E k \in 1..Len(originals) :
                 /\ originals[k].path = wc_ret.edits[j].file_path
                 /\ originals[k].original = wc_ret.edits[j].original_content
                 /\ TextOrEmpty(wc_exists, wc_text, Resolve(originals[k].path))
                      = wc_ret.edits[j].new_content

\* C28 witness: a.txt held "x" and has had two write/replace calls, the last
\* a write that left it at "x"; diff() returns no FileEdit although a.txt is
\* tracked.
C28_Witness ==
  /\ wc_ret.op = "get_file_edits"
  /\ wc_ret.edits = <<>>
  /\ wc_ret.after = "write_file"
  /\ wc_ops = 2
  /\ originals = <<[path |-> "a.txt", original |-> <<"x">>]>>
  /\ wc_text["a.txt"] = <<"x">>

\* C29: a verification that did not pass with an attempt left composes one
\* feedback block, from the result of that attempt's verification, and no
\* other step composes one or changes the stored block; every agent run but
\* the first is preceded by one reset_edit_tracking() call and gets the
\* block composed at the end of the attempt before it; the first agent run
\* gets none and follows no reset.
C29_OneFeedbackBlockPerRetry ==
  [][/\ IF pc = "p2_result" /\ ~result.fix_verified /\ attempt < max_attempts
        THEN /\ feedback_count' = feedback_count + 1
             /\ retry_context' = [reproduced |-> result.reproduced,
                                  fix_verified |-> result.fix_verified,
                                  output |-> result.output]
             /\ result.output # "None"
        ELSE UNCHANGED <<feedback_count, retry_context>>
     /\ (pc' = "agent" /\ pc # "agent")
          => /\ agent_prompt' = retry_context
             /\ feedback_count = attempt' - 1
             /\ reset_calls' = attempt' - 1
             /\ IF attempt' = 1
                THEN agent_prompt' = NoFeedback /\ reset_calls' = reset_calls
                ELSE /\ reset_calls' = reset_calls + 1
                     /\ agent_prompt' = [reproduced |-> sandbox_reproduced,
                                         fix_verified |-> sandbox_fix_verified,
                                         output |-> sandbox_output]
                     /\ sandbox_fix_verified = FALSE
     /\ (pc' # "agent" \/ pc = "agent") => UNCHANGED <<reset_calls, agent_prompt>>]_vars

\* C29 witness: the third agent run is under way with the feedback of the
\* second attempt, whose sandbox runs reproduced the bug and did not verify
\* the fix; two blocks have been composed and two resets made.
C29_Witness ==
  /\ pc = "agent"
  /\ attempt = 3
  /\ feedback_count = 2
  /\ reset_calls = 2
  /\ agent_prompt = FormatSandboxFeedback(TRUE, FALSE, "Log")

\* The lines of the sandbox_output events published for a run, in order.
EmittedLines(events, label) ==
  LET outs == SelectSeq(events, LAMBDA e : e.type = "sandbox_output" /\ e.label = label)
  IN  [k \in 1..Len(outs) |-> [stream |-> outs[k].stream, data |-> outs[k].data]]

\* C24: the sandbox_output events of a run carry its label and are, in
\* order, the lines the script has written (stdout and stderr as they came),
\* one event per line; they are out while the run is in progress, so when
\* the script has exited every line it wrote has had its event.
C24_LinesStreamedAsProduced ==
  /\ s_pc \in {"running", "exited"}
       => IsPrefix(EmittedLines(s_events, s_label), s_produced)
  /\ s_pc = "exited" => EmittedLines(s_events, s_label) = s_produced
  /\ (s_pc = "result" /\ s_label = "FIXED" /\ s_exit_code # NoExitCode)
       => EmittedLines(s_events, s_label) = s_produced

\* C30 (as claimed): every change of sandbox_terminal_log adds entries at its
\* end; no entry is ever removed or replaced, in any attempt or between
\* attempts.
C30_TerminalLogAppendOnly ==
  [][IsPrefix(sandbox_terminal_log, sandbox_terminal_log')]_vars

\* C30 (amended): every change of sandbox_terminal_log adds entries at its
\* end, except that the pipeline's decision after a verification that did not
\* pass, with an attempt left, empties the list for the next attempt.
C30_AppendOnlyWithinAttempt ==
  [][\/ IsPrefix(sandbox_terminal_log, sandbox_terminal_log')
     \/ /\ s_pc = "result" /\ s_pc' = "agent"
        /\ ~s_fix_verified
        /\ s_attempt < MaxAttemptsBound /\ s_attempt' = s_attempt + 1
        /\ sandbox_terminal_log' = <<>>]_vars

\* C30 witness: the second attempt's verification is over; the log holds the
\* entries of its two runs, each of which wrote a line, and none of the
\* first attempt's.
C30_Witness ==
  /\ s_attempt = 2
  /\ s_pc = "result"
  /\ s_label = "FIXED"
  /\ Len(sandbox_terminal_log) = 4
  /\ sandbox_terminal_log[2].data = ExitLine(1)
  /\ sandbox_terminal_log[3] = [stream |-> "stderr", data |-> Line(1), label |-> "FIXED"]

\* C31: the feedback block composed for the next attempt holds at most 100
\* lines of the terminal log, and they are its most recent ones, and at most
\* 2000 characters of the raw output, and they are its first ones, whatever
\* the lengths of the log and of the output and whether the verification
\* was skipped, did not pass or ended in a sandbox error.
C31_FeedbackCapped ==
  f_pc = "composed" =>
    LET t == f_block.terminal
        r == f_block.raw
    IN  /\ Len(t) <= TerminalLogCap
        /\ Len(t) <= Len(f_log)
        /\ \A k \in 1..Len(t) : t[k] = f_log[Len(f_log) - Len(t) + k]
        /\ Cardinality(r) <= RawOutputCap
        /\ \A c \in r : c <= RawOutputCap /\ c <= f_output_len

\* Feedback was composed from a terminal log of more than 100 lines and a
\* raw output of more than 2000 characters, and holds 100 lines and 2000
\* characters.
C31_Witness ==
  /\ f_pc = "composed"
  /\ Len(f_log) > TerminalLogCap
  /\ f_output_len > RawOutputCap
  /\ Len(f_block.terminal) = TerminalLogCap
  /\ Cardinality(f_block.raw) = RawOutputCap

\* The positions at which old occurs in content (every position of the
\* empty string), the least of them, and content with the occurrence at p
\* replaced.
Occurrences(content, old) ==
  {i \in 1..(Len(content) - Len(old) + 1) : SubSeq(content, i, i + Len(old) - 1) = old}

FirstOccurrence(content, old) ==
  CHOOSE p \in Occurrences(content, old) : \A q \in Occurrences(content, old) : p <= q

ReplacedAt(content, p, old, new) ==
  SubSeq(content, 1, p - 1) \o new \o SubSeq(content, p + Len(old), Len(content))

\* The largest number of occurrences no two of which overlap.
DisjointOccurrences(content, old) ==
  LET occ == Occurrences(content, old)
      apart == {S \in SUBSET occ : \A a, b \in S : a < b => b - a >= Len(old)}
  IN  CHOOSE n \in 0..Cardinality(occ) :
        /\ \E S \in apart : Cardinality(S) = n
        /\ \A S \in apart : Cardinality(S) <= n

\* C32 as stated: when old occurs at k >= 1 positions of the file,
\* search_and_replace replaces the occurrence at the first position, leaves
\* the rest of the text and every other occurrence as it was, and reports k.
C32_ReplacesFirstReportsAll ==
  (r_pc = "done" /\ Occurrences(r_content, r_old) # {}) =>
    LET occ == Occurrences(r_content, r_old)
        p == FirstOccurrence(r_content, r_old)
    IN  /\ r_text = ReplacedAt(r_content, p, r_old, r_new)
        /\ \A q \in occ \ {p} :
             q + Len(r_new) - Len(r_old) \in Occurrences(r_text, r_old)
        /\ r_ret.count = Cardinality(occ)

\* C32 amended: when old occurs in the file, search_and_replace replaces
\* the occurrence at the first position, leaves the rest of the text and
\* every occurrence that does not overlap the first one as it was, and
\* reports the number of non-overlapping occurrences, which is the number
\* of positions when no two occurrences overlap.
C32_ReplacesFirstReportsDisjoint ==
  (r_pc = "done" /\ Occurrences(r_content, r_old) # {}) =>
    LET occ == Occurrences(r_content, r_old)
        p == FirstOccurrence(r_content, r_old)
    IN  /\ r_text = ReplacedAt(r_content, p, r_old, r_new)
        /\ \A q \in occ :
             q >= p + Len(r_old) /\ q # p =>
               q + Len(r_new) - Len(r_old) \in Occurrences(r_text, r_old)
        /\ r_ret.count = DisjointOccurrences(r_content, r_old)
        /\ (\A a, b \in occ : a < b => b - a >= Len(r_old)) =>
             r_ret.count = Cardinality(occ)

\* A call has replaced the first of two occurrences of a non-empty old that
\* lie apart, and reported two.
C32_Witness ==
  /\ r_pc = "done"
  /\ r_old # <<>>
  /\ Cardinality(Occurrences(r_content, r_old)) = 2
  /\ r_ret.count = 2
  /\ r_text # r_content
  /\ Cardinality(Occurrences(r_text, r_old)) = 1

\* C33: the FileEdit list an agent run leaves on the incident -- the list the
\* incident holds when the verification that follows sets verified, and
\* the one the PR is built from -- covers every file whose content in the
\* working copy differs from its content at checkout, edits of earlier
\* attempts included.  A file that does not exist counts as empty, as it
\* does for get_file_edits.
C33_VerifiedEditsCoverWholeFix ==
  wc_ret.op = "get_file_edits" =>
    \A f \in WFiles :
      TextOrEmpty(wc_exists, wc_text, f) # wc_checkout[f].text
        => \E k \in 1..Len(wc_ret.edits) : Resolve(wc_ret.edits[k].file_path) = f

\* C34: get_file_edits() returns at most one FileEdit per file, also when the
\* file was written or replaced through different relative spellings of its
\* path (the FileEdit's original content presupposes that there is one).
C34_OneFileEditPerFile ==
  wc_ret.op = "get_file_edits" =>
    \A f \in WFiles :
      LET ks == {k \in 1..Len(wc_ret.edits) : Resolve(wc_ret.edits[k].file_path) = f}
      IN  Cardinality(ks) <= 1

\* C35: status verified only after a verification phase both checks of which
\* succeeded: the run of the original code failed (reproduced) and the run of
\* the fixed code passed (fix verified).
C35_VerifiedNeedsBothChecks ==
  status = "verified"
    => /\ result # NoResult
       /\ result.reproduced /\ result.fix_verified
       /\ sandbox_reproduced = TRUE /\ sandbox_fix_verified = TRUE

\* The status_change events of a stream, in order.
StatusChanges(events) == SelectSeq(events, LAMBDA e : e.type = "status_change")

\* C36: when the pipeline calls close_stream, the last status_change event it
\* has published carries the status the incident holds (verified or failed
\* after at least one attempt); a pipeline that published no status_change
\* has left the status as it was created.
C36_StreamAndStoreAgreeAtEnd ==
  [][stream_closed' # stream_closed
       => LET changes == StatusChanges(published')
          IN  IF changes = <<>>
              THEN status' = "detected"
              ELSE /\ changes[Len(changes)].status = status'
                   /\ status' \in {"verified", "failed"}]_vars

\* C36 witness: the pipeline has ended failed after a retry, whose
\* status_change event said investigating while the status was simulating.
C36_Witness ==
  /\ pc = "done"
  /\ status = "failed"
  /\ agent_calls >= 2
  /\ stream_closed = 1
  /\ Len(StatusChanges(published)) >= 2
  /\ StatusChanges(published)[Len(StatusChanges(published))].status = "failed"

\* C37: at most one pull request is created for an incident: once an approve
\* call has succeeded, every later approve call is rejected (400) and does
\* not call create_fix_pr; calls whose PR creation failed do not count.
C37_AtMostOnePr ==
  /\ [](prs_created <= 1)
  /\ [][(Approve /\ prs_created >= 1)
          => /\ approve_resp' = "400"
             /\ pr_calls' = pr_calls
             /\ prs_created' = prs_created]_vars

\* C37 witness: an approve call failed in create_fix_pr, a second one created
\* the PR, and a third one was rejected.
C37_Witness ==
  /\ pr_calls = 2
  /\ prs_created = 1
  /\ status = "pr_created"
  /\ approve_resp = "400"

\* C38: a subscriber's queue and the events it is yielded hold only items put
\* there by calls for the incident id it subscribed with, and its stream is
\* ended only by the close_stream of that incident id.
C38_EventsIsolatedPerIncident ==
  \A s \in Subscribers :
    /\ \A n \in 1..Len(m_queue[s]) : m_queue[s][n].inc = m_of[s]
    /\ \A e \in m_received[s] : e.inc = m_of[s]
    /\ m_ended_by[s] \in {"None", m_of[s]}

\* C38 witness: both incidents published and were closed, with a subscriber
\* each; s1 has been yielded an event of A and ended by A's sentinel while
\* s2, a subscriber of B, holds B's items.
C38_Witness ==
  /\ m_of["s1"] = "A" /\ m_of["s2"] = "B"
  /\ m_published["A"] >= 1 /\ m_published["B"] >= 1
  /\ m_closed["A"] /\ m_closed["B"]
  /\ m_received["s1"] # {}
  /\ m_ended_by["s1"] = "A"
  /\ m_queue["s2"] # <<>>

\* C39: within an agent run sandbox_runs_remaining is never negative; a
\* run_sandbox request made with budget left takes exactly one run and
\* starts a sandbox, one made with the budget used up changes nothing and
\* starts none; the end of a sandbox run, also in a sandbox error, gives
\* nothing back; and nothing else changes the budget of a run -- also with
\* several run_sandbox calls awaiting their sandbox at once.
C39_BudgetExactUnderConcurrency ==
  /\ [](t_calls > 0 => sandbox_runs_remaining \in 0..MAX_SANDBOX_RUNS)
  /\ [][/\ RunSandbox
             => IF sandbox_runs_remaining > 0
                THEN /\ sandbox_runs_remaining' = sandbox_runs_remaining - 1
                     /\ t_inflight' = t_inflight + 1
                     /\ t_started' = t_started + 1
                ELSE /\ sandbox_runs_remaining' = sandbox_runs_remaining
                     /\ t_inflight' = t_inflight
                     /\ t_started' = t_started
        /\ RunSingleSandboxDone => sandbox_runs_remaining' = sandbox_runs_remaining
        /\ (t_calls' = t_calls /\ sandbox_runs_remaining' # sandbox_runs_remaining)
             => sandbox_runs_remaining' = sandbox_runs_remaining - 1]_vars

\* C39 witness: two run_sandbox calls of one agent run await their sandbox,
\* the budget is used up, and a third request was rejected meanwhile.
C39_Witness ==
  /\ t_pc = "run"
  /\ t_inflight = 2
  /\ sandbox_runs_remaining = 0
  /\ t_ret = BudgetExhausted

====
